---------------------------- MODULE Spec2Model ----------------------------
(***************************************************************************)
(* A model of the Azure Maps gridded data source:                          *)
(*   - the expression engine (Expression.parse / eval, MathExp, Case, ...)  *)
(*   - the grid engine GridMath (calculateGrid, recalculateCoords, ...)     *)
(*   - the GriddedDataSource class (add, remove, setOptions, throttle).     *)
(*                                                                         *)
(* JavaScript values are tagged records [t |-> <type>, v |-> <payload>].    *)
(* JavaScript numbers are exact rationals [n |-> num, d |-> den] extended   *)
(* with NaN (0/0), +Infinity (1/0) and -Infinity (-1/0); negative zero is   *)
(* not distinguished from zero.  A thrown exception is the value            *)
(* [t |-> "throw", v |-> <message>] and is propagated by every operator     *)
(* that models code without a try/catch.                                    *)
(***************************************************************************)
EXTENDS Integers, Sequences, FiniteSets, TLC

VARIABLES
    opt,          \* GriddedDataSource._options
    points,       \* GriddedDataSource._points
    pixels,       \* GriddedDataSource._pixels
    gridInfo,     \* GriddedDataSource._gridInfo (undefined until the first recompute)
    requestId,    \* GriddedDataSource._requestId
    pending,      \* whether a requestAnimationFrame callback is queued
    shapes,       \* the cells held by the base DataSource (clear / add of _updateCells)
    superOptions, \* the options handed to the base DataSource
    thrown,       \* what the last call or frame callback threw (undefined if nothing)
    last,         \* the last call: its name and its argument
    calls,        \* number of API calls made so far
    xExp,         \* expression harness: the array-encoded expression
    xCtx,         \* expression harness: the property bag it is evaluated against
    xAst,         \* expression harness: result of Expression.parse
    xVal,         \* expression harness: result of eval
    xPc,          \* expression harness: "off" | "input" | "parsed" | "evaluated"
    gPoints,      \* grid harness: the points given to GridMath.calculateGrid
    gOptions,     \* grid harness: the options given to it
    gGrid,        \* grid harness: the grid returned, or the value thrown
    gPc,          \* grid harness: "off" | "input" | "calculated" | "recalculated" | "calculated again"
    mIn,          \* function harness: the cube coordinate or cell info given
    mOut,         \* function harness: what the function left of it
    mPc           \* function harness: "off" | "input" | "rounded" | "finalized"

dsVars == <<opt, points, pixels, gridInfo, requestId, pending, shapes, superOptions,
            thrown, last, calls>>
xVars == <<xExp, xCtx, xAst, xVal, xPc>>
gVars == <<gPoints, gOptions, gGrid, gPc>>
mVars == <<mIn, mOut, mPc>>
vars == <<opt, points, pixels, gridInfo, requestId, pending, shapes, superOptions,
          thrown, last, calls, xExp, xCtx, xAst, xVal, xPc, gPoints, gOptions, gGrid, gPc,
          mIn, mOut, mPc>>

(***************************************************************************)
(* JavaScript numbers.                                                     *)
(***************************************************************************)
AbsInt(i) == IF i < 0 THEN -i ELSE i

SignInt(i) == IF i < 0 THEN -1 ELSE IF i > 0 THEN 1 ELSE 0

RECURSIVE GCD(_, _)
GCD(a, b) == IF b = 0 THEN a ELSE GCD(b, a % b)

\* The number n/d in lowest terms with a positive denominator; d = 0 gives
\* NaN or a signed infinity, as IEEE division does.
Rat(n, d) ==
    IF d = 0 THEN [n |-> SignInt(n), d |-> 0]
    ELSE LET g == GCD(AbsInt(n), AbsInt(d))
             s == SignInt(d)
         IN  [n |-> s * (n \div g), d |-> s * (d \div g)]

RInt(i) == [n |-> i, d |-> 1]
NaN == [n |-> 0, d |-> 0]
PosInf == [n |-> 1, d |-> 0]
NegInf == [n |-> -1, d |-> 0]

IsNaN(a) == a.n = 0 /\ a.d = 0
IsFinite(a) == a.d # 0

RNeg(a) == [n |-> -a.n, d |-> a.d]

RAdd(a, b) ==
    IF IsNaN(a) \/ IsNaN(b) THEN NaN
    ELSE IF a.d = 0 /\ b.d = 0 THEN (IF a.n = b.n THEN a ELSE NaN)
    ELSE IF a.d = 0 THEN a
    ELSE IF b.d = 0 THEN b
    ELSE LET g == GCD(a.d, b.d)
         IN  Rat(a.n * (b.d \div g) + b.n * (a.d \div g), (a.d \div g) * b.d)

RSub(a, b) == RAdd(a, RNeg(b))

\* The product, cancelling across the fraction first to keep the integers small.
RMul(a, b) ==
    IF a.d = 0 \/ b.d = 0 THEN Rat(a.n * b.n, 0)
    ELSE LET g1 == GCD(AbsInt(a.n), b.d)
             g2 == GCD(AbsInt(b.n), a.d)
         IN  Rat((a.n \div g1) * (b.n \div g2), (a.d \div g2) * (b.d \div g1))

RDiv(a, b) ==
    IF IsNaN(a) \/ IsNaN(b) THEN NaN
    ELSE IF a.d = 0 /\ b.d = 0 THEN NaN
    ELSE IF a.d = 0 THEN (IF b.n < 0 THEN RNeg(a) ELSE a)
    ELSE IF b.d = 0 THEN RInt(0)
    ELSE IF b.n = 0 THEN Rat(a.n, 0)
    ELSE RMul(a, Rat(b.d, b.n))

\* a < b as JavaScript compares numbers: every comparison with NaN is false.
RLt(a, b) ==
    IF IsNaN(a) \/ IsNaN(b) THEN FALSE
    ELSE IF a.d = 0 /\ b.d = 0 THEN a.n < b.n
    ELSE IF a.d = 0 THEN a.n < 0
    ELSE IF b.d = 0 THEN b.n > 0
    ELSE LET g == GCD(a.d, b.d)
         IN  a.n * (b.d \div g) < b.n * (a.d \div g)

RLe(a, b) == ~IsNaN(a) /\ ~IsNaN(b) /\ (a = b \/ RLt(a, b))

\* Math.min / Math.max of two numbers: NaN if either is NaN.
RMin(a, b) == IF IsNaN(a) \/ IsNaN(b) THEN NaN ELSE IF RLt(b, a) THEN b ELSE a
RMax(a, b) == IF IsNaN(a) \/ IsNaN(b) THEN NaN ELSE IF RLt(a, b) THEN b ELSE a

\* Math.floor, Math.ceil, Math.round (round half up) and Math.abs.
RFloor(a) == IF a.d = 0 THEN a ELSE RInt(a.n \div a.d)
RCeil(a) == IF a.d = 0 THEN a ELSE RInt(-((-a.n) \div a.d))
RRound(a) == IF a.d = 0 THEN a ELSE RInt((2 * a.n + a.d) \div (2 * a.d))
RAbs(a) == [n |-> AbsInt(a.n), d |-> a.d]

\* a % b with the sign of the dividend, as JavaScript's remainder.
RMod(a, b) ==
    IF a.d = 0 \/ IsNaN(b) \/ b.n = 0 THEN NaN
    ELSE IF b.d = 0 THEN a
    ELSE LET q == RDiv(RAbs(a), RAbs(b))
             r == RSub(RAbs(a), RMul(RAbs(b), RFloor(q)))
         IN  IF a.n < 0 THEN RNeg(r) ELSE r

\* Math.pow for an integer exponent (the only exponents the model feeds it).
RECURSIVE RPowInt(_, _)
RPowInt(a, k) == IF k = 0 THEN RInt(1) ELSE RMul(a, RPowInt(a, k - 1))

RPow(a, b) ==
    IF IsNaN(b) THEN NaN
    ELSE IF b.n = 0 /\ b.d # 0 THEN RInt(1)
    ELSE IF IsNaN(a) \/ b.d # 1 THEN NaN
    ELSE IF b.n > 0 THEN RPowInt(a, b.n)
    ELSE RDiv(RInt(1), RPowInt(a, -b.n))

(***************************************************************************)
(* JavaScript values.                                                      *)
(***************************************************************************)
Undef == [t |-> "undefined"]
Null == [t |-> "null"]
B(b) == [t |-> "boolean", v |-> b]
Num(r) == [t |-> "number", v |-> r]
N(i) == [t |-> "number", v |-> RInt(i)]
S(s) == [t |-> "string", v |-> s]
A(seq) == [t |-> "array", v |-> seq]
O(f) == [t |-> "object", v |-> f]
Throw(msg) == [t |-> "throw", v |-> msg]
\* The result of a string or transcendental operation the model does not compute.
Opaque(what) == [t |-> "opaque", v |-> what]

IsThrow(x) == x.t = "throw"
IsArray(x) == x.t = "array"

EmptyObj == O([k \in {} |-> Undef])

\* exp[i] for a zero-based index of a JavaScript array: undefined past the end.
Elem(arr, i) == IF i >= 0 /\ i < Len(arr.v) THEN arr.v[i + 1] ELSE Undef

\* The first thrown value of a sequence of results, or Undef if none threw.
FirstThrow(seq) ==
    IF \E i \in 1..Len(seq) : IsThrow(seq[i])
    THEN seq[CHOOSE i \in 1..Len(seq) :
                 IsThrow(seq[i]) /\ \A j \in 1..(i - 1) : ~IsThrow(seq[j])]
    ELSE Undef

\* typeof x
TypeOf(x) ==
    CASE x.t \in {"null", "array", "object"} -> "object"
      [] OTHER -> x.t

\* Truthiness of a value (the ToBoolean conversion of `if (x)`, `!x`, `&&`).
Truthy(x) ==
    CASE x.t \in {"undefined", "null"} -> FALSE
      [] x.t = "boolean" -> x.v
      [] x.t = "number" -> ~IsNaN(x.v) /\ ~(x.v.n = 0 /\ x.v.d # 0)
      [] x.t = "string" -> x.v # ""
      [] OTHER -> TRUE

\* Strings that read as numbers; every other string of the model converts to NaN.
NumericStrings == {"0", "1", "2", "10"}
StringNumber(s) ==
    CASE s = "" -> RInt(0)
      [] s = "0" -> RInt(0)
      [] s = "1" -> RInt(1)
      [] s = "2" -> RInt(2)
      [] s = "10" -> RInt(10)
      [] OTHER -> NaN

\* The ToNumber conversion applied by the arithmetic and relational operators.
ToNumber(x) ==
    CASE x.t = "number" -> x.v
      [] x.t = "boolean" -> IF x.v THEN RInt(1) ELSE RInt(0)
      [] x.t = "null" -> RInt(0)
      [] x.t = "string" -> StringNumber(x.v)
      [] x.t = "array" ->
            IF Len(x.v) = 0 THEN RInt(0)
            ELSE IF Len(x.v) = 1 /\ x.v[1].t = "number" THEN x.v[1].v
            ELSE NaN
      [] OTHER -> NaN

IsPrimitive(x) == x.t \in {"undefined", "null", "boolean", "number", "string"}

\* a < b: numbers after ToNumber.  Two strings compare as text, which the model
\* does not order: the result is then Opaque.
JsLt(a, b) ==
    IF a.t = "string" /\ b.t = "string" THEN Opaque("string<")
    ELSE B(RLt(ToNumber(a), ToNumber(b)))

JsLe(a, b) ==
    IF a.t = "string" /\ b.t = "string" THEN Opaque("string<=")
    ELSE B(RLe(ToNumber(a), ToNumber(b)))

\* a === b.  Arrays and objects are compared by identity in JavaScript; the model
\* has no identities and treats two of them as different objects.
StrictEq(a, b) ==
    /\ a.t = b.t
    /\ CASE a.t \in {"undefined", "null"} -> TRUE
         [] a.t = "number" -> ~IsNaN(a.v) /\ a.v = b.v
         [] a.t \in {"boolean", "string"} -> a.v = b.v
         [] OTHER -> FALSE

\* a == b (loose equality) on primitives.
LooseEq(a, b) ==
    IF a.t = b.t THEN StrictEq(a, b)
    ELSE IF a.t \in {"undefined", "null"} \/ b.t \in {"undefined", "null"}
         THEN a.t \in {"undefined", "null"} /\ b.t \in {"undefined", "null"}
    ELSE IF IsPrimitive(a) /\ IsPrimitive(b)
         THEN LET x == ToNumber(a) y == ToNumber(b) IN ~IsNaN(x) /\ x = y
    ELSE FALSE

\* a + b: concatenation is not modelled (Opaque) when either operand is a string,
\* an array or an object; otherwise numeric addition.
JsAdd(a, b) ==
    IF ~IsPrimitive(a) \/ ~IsPrimitive(b) \/ a.t = "string" \/ b.t = "string"
    THEN Opaque("concat")
    ELSE Num(RAdd(ToNumber(a), ToNumber(b)))

JsMul(a, b) == Num(RMul(ToNumber(a), ToNumber(b)))
JsSub(a, b) == Num(RSub(ToNumber(a), ToNumber(b)))
JsDiv(a, b) == Num(RDiv(ToNumber(a), ToNumber(b)))
JsMod(a, b) == Num(RMod(ToNumber(a), ToNumber(b)))

\* o[key]: reading a property of undefined or null throws a TypeError.
Prop(o, key) ==
    CASE o.t \in {"undefined", "null"} -> Throw("TypeError")
      [] o.t \in {"throw", "opaque"} -> o
      [] o.t = "object" ->
            IF key.t = "string" /\ key.v \in DOMAIN o.v THEN o.v[key.v] ELSE Undef
      [] o.t = "array" ->
            IF key.t = "number" /\ key.v.d = 1 THEN Elem(o, key.v.n)
            ELSE IF key = S("length") THEN N(Len(o.v))
            ELSE Undef
      [] o.t = "string" -> IF key = S("length") THEN Opaque("string.length")
                           ELSE IF key.t = "number" THEN Opaque("string[i]")
                           ELSE Undef
      [] OTHER -> Undef

(***************************************************************************)
(* Expression.parse: the array-encoded expression becomes a tree of nodes  *)
(* [t |-> "ast", k |-> <class>, ...] or the parse throws.                   *)
(***************************************************************************)
ComparisonOps == {"!=", "<", "<=", "==", ">", ">="}

MathOps == {"+", "*", "min", "max", "-", "/", "%", "^", "abs", "acos", "asin",
            "atan", "ceil", "cos", "e", "floor", "ln", "ln2", "log10", "log2",
            "pi", "round", "sin", "sqrt", "tan"}

\* The keys of the Expressions table.
ExpressionKeys ==
    {"get", "has", "literal", "at", "index-of", "length", "slice", "!",
     "to-boolean", "to-number", "to-string", "typeof", "case", "match", "step",
     "in", "all", "any"} \cup ComparisonOps \cup MathOps

Node(k, fields) == [t |-> "ast", k |-> k] @@ fields

\* new Literal(v)
Literal(v) == Node("Literal", [v |-> v])

RECURSIVE Parse(_)

\* Expression.parse applied to each element of a list of sub-expressions.
ParseAll(seq) == [i \in 1..Len(seq) |-> Parse(seq[i])]

\* One-operand classes: Not, toBoolean, toNumber, toString, TypeOf.
UnaryParse(k, exp, msg) ==
    IF Len(exp.v) >= 2
    THEN LET e == Parse(Elem(exp, 1))
         IN  IF IsThrow(e) THEN e ELSE Node(k, [e |-> e])
    ELSE Throw(msg)

\* Get.parse and Has.parse: the optional third element is parsed first.
GetParse(k, exp, msg) ==
    LET e == IF Len(exp.v) >= 3 THEN Parse(Elem(exp, 2)) ELSE Undef
    IN  IF IsThrow(e) THEN e
        ELSE IF Len(exp.v) >= 2 THEN Node(k, [n |-> Elem(exp, 1), e |-> e])
        ELSE Throw(msg)

ComparisonParse(exp) ==
    IF Len(exp.v) >= 3
    THEN LET e1 == Parse(Elem(exp, 1))
             e2 == Parse(Elem(exp, 2))
         IN  IF IsThrow(e1) THEN e1
             ELSE IF IsThrow(e2) THEN e2
             ELSE Node("Comparison", [c |-> Elem(exp, 0).v, e1 |-> e1, e2 |-> e2])
    ELSE Throw("Invalid comparison expression.")

\* MathExp.parse: at least two operands are required whatever the operator, and
\* whether the operands are parsed is decided by the FIRST operand alone.
MathParse(exp) ==
    IF Len(exp.v) >= 3
    THEN LET rest == SubSeq(exp.v, 2, Len(exp.v))
             conditions == IF IsArray(Elem(exp, 1)) THEN ParseAll(rest) ELSE rest
             bad == FirstThrow(conditions)
         IN  IF IsThrow(bad) THEN bad
             ELSE Node("Math", [o |-> Elem(exp, 0).v, e |-> conditions])
    ELSE Throw("Invalid math expression.")

AtParse(exp) ==
    IF Len(exp.v) >= 3
    THEN LET e == Parse(Elem(exp, 2))
         IN  IF IsThrow(e) THEN e ELSE Node("At", [i |-> Elem(exp, 1), e |-> e])
    ELSE Throw("Invalid 'at' expression.")

IndexOfParse(exp) ==
    IF Len(exp.v) >= 3
    THEN LET e == Parse(Elem(exp, 2))
             idx == IF Len(exp.v) >= 4 THEN Elem(exp, 3) ELSE N(0)
         IN  IF IsThrow(e) THEN e
             ELSE Node("IndexOf", [v |-> Elem(exp, 1), e |-> e, i |-> idx])
    ELSE Throw("Invalid 'index-of' expression.")

\* Length.parse asks for three elements although the form has two.
LengthParse(exp) ==
    IF Len(exp.v) >= 3
    THEN LET e == Parse(Elem(exp, 1))
         IN  IF IsThrow(e) THEN e ELSE Node("Length", [e |-> e])
    ELSE Throw("Invalid 'length' expression.")

SliceParse(exp) ==
    IF Len(exp.v) >= 3
    THEN LET v == Parse(Elem(exp, 1))
             idx == IF Len(exp.v) >= 4 THEN Elem(exp, 3) ELSE Undef
         IN  IF IsThrow(v) THEN v
             ELSE Node("Slice", [v |-> v, s |-> Elem(exp, 2), e |-> idx])
    ELSE Throw("Invalid 'index-of' expression.")

InParse(exp) ==
    IF Len(exp.v) >= 3
    THEN LET e == Parse(Elem(exp, 2))
         IN  IF IsThrow(e) THEN e ELSE Node("In", [i |-> Elem(exp, 1), e |-> e])
    ELSE Throw("Invalid 'at' expression.")

LiteralParse(exp) ==
    IF Len(exp.v) >= 2 THEN Literal(Elem(exp, 1))
    ELSE Throw("Invalid 'literal' expression.")

\* Case.parse: the loop runs over i = 1, 3, 5, ... < length, so with the even
\* length it demands the last iteration parses the fallback as a condition and
\* pairs it with exp[length], which is undefined.
CaseParse(exp) ==
    LET len == Len(exp.v) IN
    IF len >= 3 /\ len % 2 = 0
    THEN LET m == len \div 2
             conditions == [k \in 1..m |-> Parse(Elem(exp, 2 * k - 1))]
             outputs == [k \in 1..m |-> Elem(exp, 2 * k)]
             bad == FirstThrow(conditions)
         IN  IF IsThrow(bad) THEN bad
             ELSE Node("Case", [e |-> conditions, o |-> outputs,
                                f |-> Elem(exp, len - 1)])
    ELSE Throw("Invalid 'case' expression.")

MatchParse(exp) ==
    LET len == Len(exp.v) IN
    IF len >= 5 /\ len % 2 = 1
    THEN LET input == Parse(Elem(exp, 1))
             m == (len - 3) \div 2
         IN  IF IsThrow(input) THEN input
             ELSE Node("Match", [i |-> input,
                                 l |-> [k \in 1..m |-> Elem(exp, 2 * k)],
                                 o |-> [k \in 1..m |-> Elem(exp, 2 * k + 1)],
                                 f |-> Elem(exp, len - 1)])
    ELSE Throw("Invalid 'match' expression.")

StepParse(exp) ==
    LET len == Len(exp.v) IN
    IF len >= 5 /\ len % 2 = 1
    THEN LET input == Parse(Elem(exp, 1))
             m == (len - 3) \div 2
         IN  IF IsThrow(input) THEN input
             ELSE Node("Step", [i |-> input,
                                l |-> [k \in 1..m |-> Elem(exp, 2 * k + 1)],
                                o |-> <<Elem(exp, 2)>> \o
                                      [k \in 1..m |-> Elem(exp, 2 * k + 2)]])
    ELSE Throw("Invalid 'step' expression.")

\* All.parse and Any.parse accept only an even length, i.e. an odd number of
\* operands.
AllAnyParse(k, exp, msg) ==
    IF Len(exp.v) >= 3 /\ Len(exp.v) % 2 = 0
    THEN LET conditions == ParseAll(SubSeq(exp.v, 2, Len(exp.v)))
             bad == FirstThrow(conditions)
         IN  IF IsThrow(bad) THEN bad ELSE Node(k, [e |-> conditions])
    ELSE Throw(msg)

\* Expressions[exp[0]].parse(exp)
ParseOp(op, exp) ==
    CASE op = "get" -> GetParse("Get", exp, "Invalid 'get' expression.")
      [] op = "has" -> GetParse("Has", exp, "Invalid 'has' expression.")
      [] op = "literal" -> LiteralParse(exp)
      [] op = "at" -> AtParse(exp)
      [] op = "index-of" -> IndexOfParse(exp)
      [] op = "length" -> LengthParse(exp)
      [] op = "slice" -> SliceParse(exp)
      [] op = "!" -> UnaryParse("Not", exp, "Invalid '!' expression.")
      [] op = "to-boolean" -> UnaryParse("ToBoolean", exp, "Invalid 'to-boolean' expression.")
      [] op = "to-number" -> UnaryParse("ToNumber", exp, "Invalid 'to-number' expression.")
      [] op = "to-string" -> UnaryParse("ToString", exp, "Invalid 'to-number' expression.")
      [] op = "typeof" -> UnaryParse("TypeOf", exp, "Invalid 'typeOf' expression.")
      [] op = "case" -> CaseParse(exp)
      [] op = "match" -> MatchParse(exp)
      [] op = "step" -> StepParse(exp)
      [] op = "in" -> InParse(exp)
      [] op = "all" -> AllAnyParse("All", exp, "Invalid 'all' expression.")
      [] op = "any" -> AllAnyParse("Any", exp, "Invalid 'any' expression.")
      [] op \in ComparisonOps -> ComparisonParse(exp)
      [] op \in MathOps -> MathParse(exp)

\* Expression.parse.  A value that is not an array is a literal; an array whose
\* head is not a key of the Expressions table, or an empty array, is rejected.
Parse(exp) ==
    IF IsArray(exp)
    THEN IF Len(exp.v) > 0 /\ Elem(exp, 0).t = "string" /\ Elem(exp, 0).v \in ExpressionKeys
         THEN ParseOp(Elem(exp, 0).v, exp)
         ELSE Throw("Invalid expression")
    ELSE Literal(exp)

(***************************************************************************)
(* eval: the value of a parsed node against a property bag, or a thrown    *)
(* value.  Throws and Opaque results propagate outwards.                   *)
(***************************************************************************)
Stops(x) == x.t \in {"throw", "opaque"}

\* The four strings toBoolean reads as true; v.toLowerCase() by table.
LowerCase(s) ==
    CASE s = "TRUE" -> "true"
      [] s = "Yes" -> "yes"
      [] s = "ON" -> "on"
      [] OTHER -> s

\* x.toString() for the values the model prints.
ToStringValue(x) ==
    CASE x.t = "string" -> x
      [] x.t = "boolean" -> S(IF x.v THEN "true" ELSE "false")
      [] x.t = "number" /\ x.v \in {RInt(0), RInt(1), RInt(2), RInt(10)} ->
            S(CHOOSE s \in NumericStrings : StringNumber(s) = x.v)
      [] x.t = "number" /\ IsNaN(x.v) -> S("NaN")
      [] OTHER -> Opaque("toString")

\* arr.indexOf(v, from) with strict equality; -1 if absent.
ArrayIndexOf(arr, v, from) ==
    LET start == IF from.t = "number" /\ from.v.d = 1 /\ from.v.n > 0 THEN from.v.n ELSE 0
        hits == {i \in start..(Len(arr.v) - 1) : StrictEq(Elem(arr, i), v)}
    IN  IF hits = {} THEN N(-1) ELSE N(CHOOSE i \in hits : \A j \in hits : i <= j)

\* x.indexOf(v, from): arrays are searched; strings are not modelled; any other
\* receiver has no indexOf method and the call throws.
IndexOfValue(x, v, from) ==
    CASE x.t = "array" -> ArrayIndexOf(x, v, from)
      [] x.t = "string" -> Opaque("string.indexOf")
      [] Stops(x) -> x
      [] OTHER -> Throw("TypeError")

\* A slice bound as an index into an array of length len.
SliceIndex(b, len, dflt) ==
    IF b.t = "undefined" THEN dflt
    ELSE LET r == ToNumber(b)
             k == IF r.d = 0 THEN (IF r.n > 0 THEN len ELSE IF r.n < 0 THEN 0 - len ELSE 0)
                  ELSE IF r.n >= 0 THEN r.n \div r.d ELSE -((-r.n) \div r.d)
         IN  IF k < 0 THEN (IF len + k < 0 THEN 0 ELSE len + k)
             ELSE IF k > len THEN len ELSE k

SliceValue(x, s, e) ==
    CASE x.t = "array" ->
            LET from == SliceIndex(s, Len(x.v), 0)
                to == SliceIndex(e, Len(x.v), Len(x.v))
            IN  A(SubSeq(x.v, from + 1, to))
      [] x.t = "string" -> Opaque("string.slice")
      [] Stops(x) -> x
      [] OTHER -> Throw("TypeError")

\* Object.keys(o).indexOf(n) > -1
HasKey(o, n) ==
    CASE o.t \in {"undefined", "null"} -> Throw("TypeError")
      [] o.t = "object" -> B(n.t = "string" /\ n.v \in DOMAIN o.v)
      [] o.t = "array" -> B(n.t = "string" /\ n.v \in NumericStrings
                            /\ StringNumber(n.v).n < Len(o.v))
      [] o.t = "string" -> Opaque("Object.keys(string)")
      [] Stops(o) -> o
      [] OTHER -> B(FALSE)

ToBooleanValue(v) ==
    CASE v.t = "boolean" -> v
      [] v.t = "string" -> B(LowerCase(v.v) \in {"true", "yes", "on", "1"})
      [] v.t = "number" -> B(v.v = RInt(1))
      [] Stops(v) -> v
      [] OTHER -> B(FALSE)

\* Number.parseFloat differs from ToNumber on the empty string.
ToNumberValue(v) ==
    CASE v.t = "boolean" -> IF v.v THEN N(1) ELSE N(0)
      [] v.t = "string" -> IF v.v = "" THEN Num(NaN) ELSE Num(StringNumber(v.v))
      [] v.t = "number" -> v
      [] Stops(v) -> v
      [] OTHER -> Num(NaN)

\* ComparisonExp.eval's switch
Compare(c, v1, v2) ==
    CASE c = "<" -> JsLt(v1, v2)
      [] c = "<=" -> JsLe(v1, v2)
      [] c = "==" -> B(LooseEq(v1, v2))
      [] c = "!=" -> B(~LooseEq(v1, v2))
      [] c = ">" -> JsLt(v2, v1)
      [] c = ">=" -> JsLe(v2, v1)

\* The unary and constant arms of MathExp.eval's switch.
MathUnary(o, v1) ==
    CASE o = "abs" -> Num(RAbs(ToNumber(v1)))
      [] o = "ceil" -> Num(RCeil(ToNumber(v1)))
      [] o = "floor" -> Num(RFloor(ToNumber(v1)))
      [] o = "round" -> Num(RRound(ToNumber(v1)))
      [] OTHER -> Opaque(o)

RECURSIVE Eval(_, _)

\* MathExp._getValue: a number operand is itself, a parsed operand is evaluated,
\* and an operand left unparsed that is not a number has no eval method.
GetValue(val, e) ==
    IF e.t = "number" THEN e
    ELSE IF e.t = "ast" THEN Eval(e, val)
    ELSE Throw("TypeError")

RECURSIVE ReduceOperands(_, _, _, _)
\* this._e.reduce(f, init) from operand i on, for the operator o.
ReduceOperands(o, vals, i, total) ==
    IF i > Len(vals) THEN total
    ELSE IF Stops(vals[i]) THEN vals[i]
    ELSE ReduceOperands(o, vals, i + 1,
            CASE o = "+" -> JsAdd(total, vals[i])
              [] o = "*" -> JsMul(total, vals[i])
              [] o = "max" -> Num(RMax(ToNumber(total), ToNumber(vals[i])))
              [] o = "min" -> Num(RMin(ToNumber(total), ToNumber(vals[i]))))

\* MathExp._evalArray: the fold of the operands.
EvalArray(node, val) ==
    LET vals == [i \in 1..Len(node.e) |-> GetValue(val, node.e[i])]
        init == CASE node.o = "+" -> N(0)
                  [] node.o = "*" -> N(1)
                  [] OTHER -> vals[1]
    IN  IF Stops(init) THEN init ELSE ReduceOperands(node.o, vals, 1, init)

\* MathExp.eval.  v1 and v2 are computed before the switch.  The '+', '*',
\* 'min' and 'max' arms call _evalArray, drop its result and break out of the
\* switch to the throw that follows it; '-' subtracts the first operand from
\* the second.
MathEval(node, val) ==
    LET v1 == IF Len(node.e) >= 1 THEN GetValue(val, node.e[1]) ELSE N(0)
        v2 == IF Len(node.e) >= 2 THEN GetValue(val, node.e[2]) ELSE N(0)
        o == node.o
    IN  IF Stops(v1) THEN v1
        ELSE IF Stops(v2) THEN v2
        ELSE CASE o \in {"+", "*", "min", "max"} ->
                    LET r == EvalArray(node, val)
                    IN  IF Stops(r) THEN r ELSE Throw("Invalid math expression.")
               [] o = "-" -> JsSub(v2, v1)
               [] o = "/" -> JsDiv(v1, v2)
               [] o = "%" -> JsMod(v1, v2)
               [] o = "^" -> Num(RPow(ToNumber(v1), ToNumber(v2)))
               [] OTHER -> MathUnary(o, v1)

RECURSIVE CaseEval(_, _, _)
\* Case.eval's loop from condition i on.
CaseEval(node, val, i) ==
    IF i > Len(node.e) THEN node.f
    ELSE LET c == Eval(node.e[i], val)
         IN  IF Stops(c) THEN c
             ELSE IF Truthy(c) THEN node.o[i]
             ELSE CaseEval(node, val, i + 1)

\* Match.eval: the first label strictly equal to the input.
MatchEval(node, val) ==
    LET v == Eval(node.i, val)
        hits == {i \in 1..Len(node.l) : StrictEq(node.l[i], v)}
    IN  IF Stops(v) THEN v
        ELSE IF hits = {} THEN node.f
        ELSE node.o[CHOOSE i \in hits : \A j \in hits : i <= j]

RECURSIVE StepEvalBelow(_, _, _)
\* Step.eval comparing the input with < instead of <=.
StepEvalBelow(node, v, i) ==
    IF i > Len(node.l) THEN node.o[Len(node.o)]
    ELSE LET c == JsLt(v, node.l[i])
         IN  IF Stops(c) THEN c
             ELSE IF c.v THEN node.o[i]
             ELSE StepEvalBelow(node, v, i + 1)

RECURSIVE StepEval(_, _, _)
\* Step.eval's loop from stop i on, for the input value v.
StepEval(node, v, i) ==
    IF i > Len(node.l) THEN node.o[Len(node.o)]
    ELSE LET c == JsLe(v, node.l[i])
         IN  IF Stops(c) THEN c
             ELSE IF c.v THEN node.o[i]
             ELSE StepEval(node, v, i + 1)

RECURSIVE AllEval(_, _, _, _)
\* All.eval: state = state && e.eval(val); an operand is evaluated only while
\* state is truthy.
AllEval(node, val, i, state) ==
    IF i > Len(node.e) THEN state
    ELSE IF ~Truthy(state) THEN state
    ELSE LET c == Eval(node.e[i], val)
         IN  IF Stops(c) THEN c ELSE AllEval(node, val, i + 1, c)

RECURSIVE AnyEval(_, _, _, _)
\* Any.eval: state = state || e.eval(val).
AnyEval(node, val, i, state) ==
    IF i > Len(node.e) THEN state
    ELSE IF Truthy(state) THEN state
    ELSE LET c == Eval(node.e[i], val)
         IN  IF Stops(c) THEN c ELSE AnyEval(node, val, i + 1, c)

\* node.eval(val)
Eval(node, val) ==
    LET k == node.k IN
    CASE k = "Literal" -> node.v
      [] k = "Get" ->
            LET o == IF node.e.t = "ast" THEN Eval(node.e, val) ELSE val
            IN  IF Stops(o) THEN o ELSE Prop(o, node.n)
      [] k = "Has" ->
            LET o == IF node.e.t = "ast" THEN Prop(Eval(node.e, val), node.n) ELSE val
            IN  IF Stops(o) THEN o ELSE HasKey(o, node.n)
      [] k = "At" ->
            LET o == Eval(node.e, val) IN IF Stops(o) THEN o ELSE Prop(o, node.i)
      [] k = "IndexOf" -> IndexOfValue(Eval(node.e, val), node.v, node.i)
      [] k = "Length" ->
            LET o == Eval(node.e, val) IN IF Stops(o) THEN o ELSE Prop(o, S("length"))
      [] k = "Slice" -> SliceValue(Eval(node.v, val), node.s, node.e)
      [] k = "In" ->
            LET r == IndexOfValue(Eval(node.e, val), node.i, N(0))
            IN  IF Stops(r) THEN r ELSE B(RLt(RInt(-1), r.v))
      [] k = "Not" ->
            LET v == Eval(node.e, val) IN IF Stops(v) THEN v ELSE B(~Truthy(v))
      [] k = "Comparison" ->
            LET v1 == Eval(node.e1, val)
                v2 == Eval(node.e2, val)
            IN  IF Stops(v1) THEN v1
                ELSE IF Stops(v2) THEN v2
                ELSE Compare(node.c, v1, v2)
      [] k = "ToBoolean" -> ToBooleanValue(Eval(node.e, val))
      [] k = "ToNumber" -> ToNumberValue(Eval(node.e, val))
      [] k = "ToString" ->
            LET v == Eval(node.e, val)
            IN  IF Stops(v) THEN v
                ELSE IF v.t \in {"undefined", "null"} THEN Throw("TypeError")
                ELSE ToStringValue(v)
      [] k = "TypeOf" ->
            LET v == Eval(node.e, val) IN IF Stops(v) THEN v ELSE S(TypeOf(v))
      [] k = "Case" -> CaseEval(node, val, 1)
      [] k = "Match" -> MatchEval(node, val)
      [] k = "Step" ->
            LET v == Eval(node.i, val) IN IF Stops(v) THEN v ELSE StepEval(node, v, 1)
      [] k = "All" -> AllEval(node, val, 1, B(TRUE))
      [] k = "Any" -> AnyEval(node, val, 1, B(FALSE))
      [] k = "Math" -> MathEval(node, val)

(***************************************************************************)
(* The expression engine on its own: an expression and a property bag are  *)
(* drawn, the expression is parsed and, if that succeeds, evaluated.       *)
(***************************************************************************)
Get1(name) == A(<<S("get"), S(name)>>)

\* One instance, with well-formed operands, of every form the documentation
\* lists under "Supported data-driven expressions".
DocumentedForms ==
    {Get1("n"), A(<<S("get"), S("a"), Get1("obj")>>),
     A(<<S("has"), S("n")>>), A(<<S("has"), S("a"), Get1("obj")>>),
     A(<<S("literal"), A(<<N(1), N(2)>>)>>),
     A(<<S("typeof"), Get1("n")>>),
     A(<<S("at"), N(0), Get1("arr")>>),
     A(<<S("length"), Get1("arr")>>),
     A(<<S("in"), N(1), Get1("arr")>>),
     A(<<S("in"), S("e"), Get1("s")>>),
     A(<<S("index-of"), N(2), Get1("arr")>>),
     A(<<S("index-of"), N(2), Get1("arr"), N(1)>>),
     A(<<S("slice"), Get1("arr"), N(1)>>),
     A(<<S("slice"), Get1("arr"), N(0), N(1)>>),
     A(<<S("!"), Get1("flag")>>),
     A(<<S("all"), Get1("flag"), B(TRUE)>>),
     A(<<S("any"), Get1("flag"), B(FALSE)>>),
     A(<<S("to-boolean"), Get1("s")>>),
     A(<<S("to-number"), Get1("flag")>>),
     A(<<S("to-string"), Get1("flag")>>),
     A(<<S("-"), Get1("n")>>),
     A(<<S("e")>>), A(<<S("ln2")>>), A(<<S("pi")>>),
     A(<<S("case"), A(<<S(">"), Get1("n"), N(10)>>), S("big"), S("small")>>),
     A(<<S("case"), A(<<S(">"), Get1("n"), N(20)>>), S("big"),
                    A(<<S(">"), Get1("n"), N(10)>>), S("mid"), N(0)>>),
     A(<<S("match"), Get1("n"), N(5), S("five"), N(15), S("fifteen"), S("other")>>),
     A(<<S("match"), Get1("n"), A(<<N(5), N(15)>>), S("small"), N(25), S("big"), S("other")>>),
     A(<<S("step"), Get1("n"), S("low"), N(10), S("mid"), N(20), S("high")>>)}
    \cup {A(<<S(c), Get1("n"), N(10)>>) : c \in ComparisonOps}
    \cup {A(<<S(o), Get1("n"), N(2)>>) : o \in {"+", "-", "*", "/", "%", "^", "max", "min"}}
    \cup {A(<<S(o), Get1("n")>>) :
            o \in {"abs", "acos", "asin", "atan", "ceil", "cos", "floor", "ln",
                   "log10", "log2", "round", "sin", "sqrt", "tan"}}

\* Further inputs: malformed expressions, a bare literal, operands left unparsed.
OtherForms ==
    {N(7), A(<<>>), A(<<S("nope"), N(1)>>), A(<<S("get")>>),
     A(<<S("-"), N(7), Get1("n")>>),
     A(<<S("/"), N(10), N(4)>>),
     A(<<S("all"), Get1("flag"), B(TRUE), B(TRUE)>>),
     A(<<S("length"), Get1("arr"), N(0)>>),
     A(<<S("abs"), N(-3), N(0)>>),
     A(<<S("get"), S("a"), Get1("missing")>>)}

ExprSamples == DocumentedForms \cup OtherForms

Bag(n) == O([n |-> N(n), arr |-> A(<<N(1), N(2)>>), obj |-> O([a |-> N(1)]),
             flag |-> B(TRUE), s |-> S("Yes")])

CtxSamples == {Bag(5), Bag(10), Bag(15), Bag(20), Bag(25), EmptyObj}

XInit ==
    /\ xExp \in ExprSamples
    /\ xCtx \in CtxSamples
    /\ xAst = Undef
    /\ xVal = Undef
    /\ xPc = "input"

\* Expression.parse(xExp)
XParse ==
    /\ xPc = "input"
    /\ xAst' = Parse(xExp)
    /\ xPc' = "parsed"
    /\ UNCHANGED <<xExp, xCtx, xVal, dsVars, gVars, mVars>>

\* xAst.eval(xCtx), when the parse returned a node
XEval ==
    /\ xPc = "parsed"
    /\ ~IsThrow(xAst)
    /\ xVal' = Eval(xAst, xCtx)
    /\ xPc' = "evaluated"
    /\ UNCHANGED <<xExp, xCtx, xAst, dsVars, gVars, mVars>>

(***************************************************************************)
(* GridMath.  Lengths are in pixels of the model's pixel space, which is   *)
(* the source's zoom-22 space at a lower zoom level (PixelZoom) on a       *)
(* smaller globe (MetersPerPixel at the equator), so that coordinates stay *)
(* small integers and fractions; every formula is the source's.            *)
(***************************************************************************)
\* Zoom level of the pixel space (22 in the source).
PixelZoom == 1

\* Ground resolution at the equator in hundreds of meters per pixel.
GroundResolutionSteps == 5

\* Ground resolution at the equator, in meters per pixel (2 * PI * 6378137 /
\* MapSize22 in the source).
MetersPerPixel == 100 * GroundResolutionSteps

MapSize22 == 512 * (2 ^ PixelZoom)

\* Math.sqrt(3) and Math.cos(30 * Math.PI / 180), as fractions.
Sqrt3 == [n |-> 26, d |-> 15]
InnerRadiusScale == [n |-> 13, d |-> 15]

Half == [n |-> 1, d |-> 2]

\* ['/', ['-', ['get','point_count'], ['get','min']], ['-', ['get','max'], ['get','min']]]
LinearPointCountScaleExpression ==
    A(<<S("/"), A(<<S("-"), Get1("point_count"), Get1("min")>>),
                A(<<S("-"), Get1("max"), Get1("min")>>)>>)

GridTypes == {"circle", "hexagon", "hexCircle", "pointyHexagon", "square", "triangle"}

\* Math.cos(centerLatitude * PI / 180) for the center latitudes of the model.
CosLatitude(lat) ==
    CASE lat = 0 -> RInt(1)
      [] lat = 60 -> Half

\* GridMath._getGroundResolutionZ22.  An undefined centerLatitude gives NaN.
GetGroundResolutionZ22(centerLatitude) ==
    IF centerLatitude.t = "number" /\ centerLatitude.v.d = 1
    THEN RMul(CosLatitude(centerLatitude.v.n), RInt(MetersPerPixel))
    ELSE IF centerLatitude.t = "null" THEN RInt(MetersPerPixel)
    ELSE NaN

\* atlas.math.convertDistance(d, units, 'meters') for the units of the model.
ConvertDistance(d, units) ==
    CASE units = S("meters") -> d
      [] units = S("kilometers") -> RMul(d, RInt(1000))
      [] OTHER -> NaN

\* The Mercator term 0.5 - ln((1 + sin)/(1 - sin)) / (4 PI) of toPixel22, for the
\* latitudes of the model (41 stands for 40.98 degrees, where it is 3/8).
MercatorY(lat) ==
    CASE lat = 0 -> Half
      [] lat = 41 -> [n |-> 3, d |-> 8]
      [] lat = -41 -> [n |-> 5, d |-> 8]

\* GridMath.toPixel22: a position <<lon, lat>> in whole degrees to a pixel.
ToPixel22(pos) ==
    <<RMul(Rat(pos[1] + 180, 360), RInt(MapSize22)), RMul(MercatorY(pos[2]), RInt(MapSize22))>>

\* _roundCubeCoord recomputing the row from the fractional z instead of the rounded.
RoundCubeByFraction(rx, ry, rz, x_diff, y_diff, z_diff) ==
    IF RLt(y_diff, x_diff) /\ RLt(z_diff, x_diff)
    THEN [col |-> RSub(RNeg(ry), rz), row |-> ry, z |-> rz]
    ELSE IF RLt(z_diff, y_diff)
    THEN [col |-> rx, row |-> RSub(RNeg(rx), RSub(rz, z_diff)), z |-> rz]
    ELSE [col |-> rx, row |-> ry, z |-> RSub(RNeg(rx), ry)]

\* _roundCubeCoord comparing the rounding errors with >= instead of >.
RoundCubeByFirst(rx, ry, rz, x_diff, y_diff, z_diff) ==
    IF RLe(y_diff, x_diff) /\ RLe(z_diff, x_diff)
    THEN [col |-> RSub(RNeg(ry), rz), row |-> ry, z |-> rz]
    ELSE IF RLe(z_diff, y_diff)
    THEN [col |-> rx, row |-> RSub(RNeg(rx), rz), z |-> rz]
    ELSE [col |-> rx, row |-> ry, z |-> RSub(RNeg(rx), ry)]

\* The branches of _roundCubeCoord on the three rounding errors.
RoundCubeBy(rx, ry, rz, x_diff, y_diff, z_diff) ==
    IF RLt(y_diff, x_diff) /\ RLt(z_diff, x_diff)
    THEN [col |-> RSub(RNeg(ry), rz), row |-> ry, z |-> rz]
    ELSE IF RLt(z_diff, y_diff)
    THEN [col |-> rx, row |-> RSub(RNeg(rx), rz), z |-> rz]
    ELSE [col |-> rx, row |-> ry, z |-> RSub(RNeg(rx), ry)]

\* The rounding errors of _roundCubeCoord.
RoundCubeTo(coord, rx, ry, rz) ==
    RoundCubeBy(rx, ry, rz, RAbs(RSub(rx, coord.col)), RAbs(RSub(ry, coord.row)),
                RAbs(RSub(rz, coord.z)))

\* GridMath._roundCubeCoord
RoundCubeCoord(coord) ==
    RoundCubeTo(coord, RRound(coord.col), RRound(coord.row), RRound(coord.z))

\* The cube coordinate of fractional axial coordinates: row = -col - z.
CubeOf(col, z) == RoundCubeCoord([col |-> col, row |-> RSub(RNeg(col), z), z |-> z])

\* GridMath._hexCellCoord
HexCellCoord(pixel, width, height) ==
    CubeOf(RDiv(RMul(pixel[1], RInt(4)), RMul(RInt(3), width)),
           RDiv(RSub(pixel[2], RDiv(pixel[1], Sqrt3)), height))

\* GridMath._rotatedHexCellCoord
RotatedHexCellCoord(pixel, width, height) ==
    CubeOf(RDiv(RSub(pixel[1], RDiv(pixel[2], Sqrt3)), width),
           RDiv(RMul(RInt(4), pixel[2]), RMul(RInt(3), height)))

\* The column of _triangleCellCoord from the offsets dx and dy within the cell.
TriangleColumn(width, col, dx, dy) ==
    IF RLt(RInt(1), dy)
    THEN IF RLt(dx, RMul(width, Half))
         THEN (IF RLt(RDiv(dx, dy), RDiv(RInt(1), Sqrt3)) THEN RSub(col, Half) ELSE col)
         ELSE (IF RLt(RDiv(RSub(width, dx), dy), RDiv(RInt(1), Sqrt3))
               THEN RAdd(col, Half) ELSE col)
    ELSE col

\* The offsets of _triangleCellCoord: dy is flipped on odd rows.
TriangleOffsets(pixel, width, height, row, col, dy) ==
    [col |-> TriangleColumn(width, col, RSub(pixel[1], RMul(col, width)),
                            IF RMod(row, RInt(2)) = RInt(1) THEN RSub(height, dy) ELSE dy),
     row |-> row, z |-> RInt(0)]

\* The row and column of _triangleCellCoord.
TriangleRowColumn(pixel, width, height, row, col) ==
    TriangleOffsets(pixel, width, height, row, col,
                    RSub(RMul(RAdd(row, RInt(1)), height), pixel[2]))

\* GridMath._triangleCellCoord
TriangleCellCoord(pixel, width, height) ==
    TriangleRowColumn(pixel, width, height, RFloor(RDiv(pixel[2], height)),
                      RFloor(RDiv(pixel[1], width)))

\* GridMath._getCellCoord: any grid type that is not a hexagon or a triangle is
\* binned on the square grid.
GetCellCoord(pixel, width, height, gridType) ==
    CASE gridType = S("pointyHexagon") -> RotatedHexCellCoord(pixel, width, height)
      [] gridType \in {S("hexagon"), S("hexCircle")} -> HexCellCoord(pixel, width, height)
      [] gridType = S("triangle") -> TriangleCellCoord(pixel, width, height)
      [] OTHER -> [col |-> RFloor(RDiv(pixel[1], width)),
                   row |-> RFloor(RDiv(pixel[2], height)), z |-> RInt(0)]

\* The cell height computed at the head of calculateGrid.
CellHeight(width, gridType) ==
    CASE gridType = S("pointyHexagon") -> RDiv(RMul(RInt(2), width), Sqrt3)
      [] gridType \in {S("hexagon"), S("hexCircle")} -> RMul(RMul(Sqrt3, width), Half)
      [] gridType = S("triangle") -> RMul(RMul(Sqrt3, Half), width)
      [] OTHER -> width

\* GridMath._createCell.  The cell id `x${col}y${row}z${z}` is kept as the triple
\* of numbers it is rendered from.
CreateCell(cell_id, cx, cy, rightSideUp, hasAggregates) ==
    [properties |-> [cell_id |-> cell_id,
                     aggregateProperties |-> IF hasAggregates THEN EmptyObj ELSE Undef,
                     _x |-> cx, _y |-> cy, _rightSideUp |-> rightSideUp,
                     point_count |-> 0,
                     point_count_abbreviated |-> [n |-> 0, unit |-> ""]],
     coordinates |-> <<>>]

\* rightSideUp of a triangle cell: whole columns point up on even rows.
RightSideUp(cube, whole_col) ==
    IF RMod(RRound(cube.row), RInt(2)) = RInt(0) THEN B(whole_col) ELSE B(~whole_col)

\* GridMath._createCellFromCubeCoord
CreateCellFromCubeCoord(cellId, cube, gridType, width, height, hasAggregates) ==
    CASE gridType = S("pointyHexagon") ->
           CreateCell(cellId, RMul(width, RAdd(cube.col, RMul(cube.z, Half))),
                      RMul(RMul([n |-> 3, d |-> 4], height), cube.z), Undef, hasAggregates)
      [] gridType \in {S("hexagon"), S("hexCircle")} ->
           CreateCell(cellId, RMul(RMul([n |-> 3, d |-> 4], width), cube.col),
                      RMul(height, RAdd(cube.z, RMul(cube.col, Half))), Undef, hasAggregates)
      [] gridType = S("triangle") ->
           CreateCell(cellId, RFloor(RMul(RAdd(cube.col, Half), width)),
                      RFloor(RMul(cube.row, height)),
                      RightSideUp(cube, RLt(RAbs(RSub(cube.col, RRound(cube.col))),
                                            [n |-> 1, d |-> 10])),
                      hasAggregates)
      [] OTHER ->
           CreateCell(cellId, RMul(RAdd(cube.col, Half), width),
                      RMul(RAdd(cube.row, Half), height), Undef, hasAggregates)

\* Math.sin of a whole number of degrees that is a multiple of ten, as a fraction.
RECURSIVE SinDeg(_)
SinDeg(a) ==
    IF a < 0 THEN RNeg(SinDeg(-a))
    ELSE IF a >= 360 THEN SinDeg(a - 360)
    ELSE IF a > 180 THEN RNeg(SinDeg(a - 180))
    ELSE IF a > 90 THEN SinDeg(180 - a)
    ELSE CASE a = 0 -> RInt(0)
           [] a = 10 -> [n |-> 87, d |-> 500]
           [] a = 20 -> [n |-> 171, d |-> 500]
           [] a = 30 -> Half
           [] a = 40 -> [n |-> 643, d |-> 1000]
           [] a = 50 -> [n |-> 383, d |-> 500]
           [] a = 60 -> InnerRadiusScale
           [] a = 70 -> [n |-> 47, d |-> 50]
           [] a = 80 -> [n |-> 197, d |-> 200]
           [] a = 90 -> RInt(1)

CosDeg(a) == SinDeg(90 - a)

\* GridMath._calculateArcAngles
CalculateArcAngles(numNodes, offset) ==
    [sin |-> [i \in 1..numNodes |-> SinDeg((i - 1) * (360 \div numNodes) + offset)],
     cos |-> [i \in 1..numNodes |-> CosDeg((i - 1) * (360 \div numNodes) + offset)]]

\* GridMath._getArcAngles: undefined for any other grid type.  The cache of the
\* source holds what this computes.
GetArcAngles(gridType) ==
    CASE gridType \in {S("circle"), S("hexCircle")} -> CalculateArcAngles(36, 0)
      [] gridType = S("pointyHexagon") -> CalculateArcAngles(6, 0)
      [] gridType = S("hexagon") -> CalculateArcAngles(6, 30)
      [] OTHER -> Undef

\* The latitude 90 - 360 atan(exp((f - 0.5) 2 PI)) / PI of a Mercator fraction f:
\* the inverse of MercatorY where that is tabulated, and otherwise the latitude
\* named by its fraction.
MercatorLatitude(f) ==
    CASE f = Half -> RInt(0)
      [] f = [n |-> 3, d |-> 8] -> RInt(41)
      [] f = [n |-> 5, d |-> 8] -> RInt(-41)
      [] OTHER -> [mercator |-> f]

\* GridMath._toPosition22
ToPosition22(pixel) ==
    <<RMul(RInt(360), RSub(RDiv(pixel[1], RInt(MapSize22)), Half)),
      MercatorLatitude(RDiv(pixel[2], RInt(MapSize22)))>>

\* The positions of a polygon returned without the closing position.
OpenRing(pos) == [t |-> "rings", v |-> <<pos>>]

\* The coordinates of a polygon: the one ring pos, closed with its first position.
ClosedRing(pos) == [t |-> "rings", v |-> <<Append(pos, pos[1])>>]

\* The node loop of _getRegularPolygon.
RegularPolygonNodes(cellInfo, radius, arcAngles) ==
    ClosedRing([i \in 1..Len(arcAngles.sin) |->
        ToPosition22(<<RMin(RMax(RAdd(cellInfo._x, RMul(radius, arcAngles.sin[i])), RInt(0)),
                            RInt(MapSize22)),
                       RAdd(cellInfo._y, RMul(radius, arcAngles.cos[i]))>>)])

\* GridMath._getRegularPolygon.  Undefined arc angles make `arcAngles.sin` throw.
GetRegularPolygon(cellInfo, radius, arcAngles, minCellWidth) ==
    IF arcAngles = Undef THEN Throw("TypeError")
    ELSE RegularPolygonNodes(cellInfo,
                             IF RLt(RMul(radius, RInt(2)), minCellWidth)
                             THEN RMul(minCellWidth, Half) ELSE radius,
                             arcAngles)

\* The four corners of _getSquare.
SquareCorners(top, bottom, left, right) ==
    ClosedRing(<<ToPosition22(<<left, top>>), ToPosition22(<<left, bottom>>),
                 ToPosition22(<<right, bottom>>), ToPosition22(<<right, top>>)>>)

\* The sides of _getSquare: left and right are clamped to the map.
SquareSides(cellInfo, scaledHalfWidth) ==
    SquareCorners(RSub(cellInfo._y, scaledHalfWidth), RAdd(cellInfo._y, scaledHalfWidth),
                  RMax(RSub(cellInfo._x, scaledHalfWidth), RInt(0)),
                  RMin(RAdd(cellInfo._x, scaledHalfWidth), RInt(MapSize22)))

\* GridMath._getSquare
GetSquare(cellInfo, width, scale, minCellWidth) ==
    SquareSides(cellInfo, RMul(RMax(RMul(width, scale), minCellWidth), Half))

\* One x coordinate of _getTriangle after the clamp: when the left corner x3 is
\* off the map all three are raised to 0, else when the right corner x2 is off the
\* map all three are lowered to the map size.
ClampTriangle(x, x2, x3) ==
    IF RLt(x3, RInt(0)) THEN RMax(x, RInt(0))
    ELSE IF RLt(RInt(MapSize22), x2) THEN RMin(x, RInt(MapSize22))
    ELSE x

\* The corners of _getTriangle.
TriangleCorners(rightSideUp, x1, x2, x3, offsetY, height) ==
    IF Truthy(rightSideUp)
    THEN ClosedRing(<<ToPosition22(<<x1, offsetY>>),
                      ToPosition22(<<x2, RAdd(height, offsetY)>>),
                      ToPosition22(<<x3, RAdd(height, offsetY)>>)>>)
    ELSE ClosedRing(<<ToPosition22(<<x1, RAdd(height, offsetY)>>),
                      ToPosition22(<<x2, offsetY>>),
                      ToPosition22(<<x3, offsetY>>)>>)

\* The x coordinates of _getTriangle before and after the clamp.
TriangleClamped(rightSideUp, x1, x2, x3, offsetY, height) ==
    TriangleCorners(rightSideUp, ClampTriangle(x1, x2, x3), ClampTriangle(x2, x2, x3),
                    ClampTriangle(x3, x2, x3), offsetY, height)

\* _getTriangle once width and height are scaled: the height grows when the
\* scaled width is under the minimum.
TriangleScaled(cellInfo, offsetY, width, height, minCellWidth) ==
    TriangleClamped(cellInfo._rightSideUp, cellInfo._x,
                    RAdd(cellInfo._x, RMul(width, Half)),
                    RSub(cellInfo._x, RMul(width, Half)),
                    offsetY,
                    IF RLt(width, minCellWidth)
                    THEN RMul(height, RDiv(minCellWidth, width)) ELSE height)

\* GridMath._getTriangle
GetTriangle(cellInfo, width, height, scale, minCellWidth) ==
    TriangleScaled(cellInfo,
                   RAdd(cellInfo._y, RMul(RSub(height, RMul(height, scale)), Half)),
                   RMul(width, scale), RMul(height, scale), minCellWidth)

(***************************************************************************)
(* Aggregates.                                                             *)
(***************************************************************************)
\* new CellAggregateExpression(operator, e, init), or the value the parse of the
\* map expression threw.
CellAggregate(o, e, i) ==
    IF IsThrow(e) THEN e ELSE Node("CellAggregate", [o |-> o, e |-> e, i |-> i])

\* CellAggregateExpression.parse: [operator, mapExpression] or
\* [operator, initialValue, mapExpression].
AggregateParse(exp) ==
    IF Len(exp.v) >= 3
    THEN CellAggregate(Elem(exp, 0), Parse(Elem(exp, 2)), Elem(exp, 1))
    ELSE IF Len(exp.v) = 2
    THEN CellAggregate(Elem(exp, 0), Parse(Elem(exp, 1)), Undef)
    ELSE Throw("Invalid 'CellAggregateExpression'.")

\* The body of the forEach of _parseMapExpressions for one aggregate.
ParseAggregate(agg) ==
    IF IsArray(agg) /\ Len(agg.v) >= 2 THEN AggregateParse(agg) ELSE Throw("invalid")

\* _parseMapExpressions deleting the key of an aggregate that does not parse
\* instead of setting it to undefined.
ParsedAggregatesDeleted(f, parsed) ==
    [mapExpressions |-> [k \in {x \in DOMAIN f : ~IsThrow(parsed[x])} |-> parsed[k]],
     aggregateProperties |-> O([k \in {x \in DOMAIN f : ~IsThrow(parsed[x])} |-> f[k]])]

\* What _parseMapExpressions leaves: the parsed aggregates by key, and the
\* aggregateProperties object with the invalid entries set to undefined in place.
ParsedAggregates(f, parsed) ==
    [mapExpressions |-> [k \in {x \in DOMAIN f : ~IsThrow(parsed[x])} |-> parsed[k]],
     aggregateProperties |->
         O([k \in DOMAIN f |-> IF IsThrow(parsed[k]) THEN Undef ELSE f[k]])]

\* GridMath._parseMapExpressions
ParseMapExpressions(aggregateProperties) ==
    ParsedAggregates(aggregateProperties.v,
                     [k \in DOMAIN aggregateProperties.v |->
                        ParseAggregate(aggregateProperties.v[k])])

\* prevValue > newValue ? prevValue : newValue, given the comparison.
Pick(c, prevValue, newValue) ==
    IF c.t = "opaque" THEN c ELSE IF c.v THEN prevValue ELSE newValue

\* The switch with the comparison of 'min' copied to 'max' and the product of '*'
\* written as a sum.
AggregateStepCopied(o, prevValue, newValue) ==
    CASE o = S("max") -> Pick(JsLt(prevValue, newValue), prevValue, newValue)
      [] o = S("min") -> Pick(JsLt(prevValue, newValue), prevValue, newValue)
      [] o = S("+") -> JsAdd(prevValue, newValue)
      [] o = S("*") -> JsAdd(prevValue, newValue)
      [] o = S("all") -> IF Truthy(prevValue) THEN newValue ELSE prevValue
      [] o = S("any") -> IF Truthy(prevValue) THEN prevValue ELSE newValue
      [] OTHER -> newValue

\* The switch of _incrementCellInfo: the fold of one more mapped value.
AggregateStep(o, prevValue, newValue) ==
    CASE o = S("max") -> Pick(JsLt(newValue, prevValue), prevValue, newValue)
      [] o = S("min") -> Pick(JsLt(prevValue, newValue), prevValue, newValue)
      [] o = S("+") -> JsAdd(prevValue, newValue)
      [] o = S("*") -> JsMul(prevValue, newValue)
      [] o = S("all") -> IF Truthy(prevValue) THEN newValue ELSE prevValue
      [] o = S("any") -> IF Truthy(prevValue) THEN prevValue ELSE newValue
      [] OTHER -> newValue

\* The value _incrementCellInfo folds the mapped value into: on the first point
\* of a cell it is agg[1] unless that is an array, and null (nothing) if it is.
PreviousValue(agg, count, props, key) ==
    IF count = 1
    THEN (IF IsArray(Elem(agg, 1)) THEN Null ELSE Elem(agg, 1))
    ELSE (IF key \in DOMAIN props THEN props[key] ELSE Undef)

\* newValue at the end of the body of the forEach of _incrementCellInfo.
FoldValue(agg, prevValue, newValue) ==
    IF prevValue.t # "null" THEN AggregateStep(Elem(agg, 0), prevValue, newValue)
    ELSE newValue

\* props after the forEach of _incrementCellInfo: a key is set unless its new
\* value is null.
FoldedProperties(props, newValues) ==
    O([k \in DOMAIN props \cup {x \in DOMAIN newValues : newValues[x].t # "null"} |->
         IF k \in DOMAIN newValues /\ newValues[k].t # "null"
         THEN newValues[k] ELSE props[k]])

\* _incrementCellInfo given what the map expressions returned for the point.
IncrementWith(cellInfo, count, aggregateProperties, props, values) ==
    IF \E k \in DOMAIN values : IsThrow(values[k])
    THEN values[CHOOSE k \in DOMAIN values : IsThrow(values[k])]
    ELSE [t |-> "cellInfo",
          v |-> [cellInfo EXCEPT
                   !.point_count = count,
                   !.aggregateProperties =
                       IF ~Truthy(aggregateProperties) \/ DOMAIN aggregateProperties.v = {}
                       THEN @
                       ELSE FoldedProperties(props,
                                [k \in DOMAIN values |->
                                   FoldValue(aggregateProperties.v[k],
                                             PreviousValue(aggregateProperties.v[k], count,
                                                           props, k),
                                             values[k])])]]

\* GridMath._incrementCellInfo: the cell info after one more point, or the value a
\* map expression threw.
IncrementCellInfo(cellInfo, point, aggregateProperties, mapExpressions) ==
    IncrementWith(cellInfo, cellInfo.point_count + 1, aggregateProperties,
                  IF Truthy(cellInfo.aggregateProperties)
                  THEN cellInfo.aggregateProperties.v ELSE EmptyObj.v,
                  [k \in (IF Truthy(aggregateProperties)
                          THEN DOMAIN aggregateProperties.v \cap DOMAIN mapExpressions
                          ELSE {}) |->
                     Eval(mapExpressions[k].e, point.properties)])

\* CellAggregateExpression.finalize: the value of the key after the initial
\* value was applied.
AggregateFinalize(exp, val) ==
    IF exp.i.t # "undefined"
    THEN CASE exp.o = S("max") -> Num(RMax(ToNumber(exp.i), ToNumber(val)))
           [] exp.o = S("min") -> Num(RMin(ToNumber(exp.i), ToNumber(val)))
           [] exp.o = S("+") -> JsAdd(exp.i, val)
           [] exp.o = S("*") -> JsMul(exp.i, val)
           [] exp.o = S("all") -> IF Truthy(exp.i) THEN val ELSE exp.i
           [] exp.o = S("any") -> IF Truthy(exp.i) THEN exp.i ELSE val
           [] OTHER -> val
    ELSE val

\* The abbreviation truncating the thousands and millions instead of rounding.
AbbreviateTruncated(count) ==
    IF count >= 1000000 THEN [n |-> count \div 1000000, unit |-> "M"]
    ELSE IF count >= 1000 THEN [n |-> count \div 1000, unit |-> "k"]
    ELSE [n |-> count, unit |-> ""]

\* The abbreviated point count: the rounded number and its unit.
Abbreviate(count) ==
    IF count >= 1000000 THEN [n |-> RRound(Rat(count, 1000000)).n, unit |-> "M"]
    ELSE IF count >= 1000 THEN [n |-> RRound(Rat(count, 1000)).n, unit |-> "k"]
    ELSE [n |-> count, unit |-> ""]

\* aggregateProperties of a cell after every aggregate expression was finalized.
FinalizedProperties(ap, aggregateExpressions) ==
    IF Truthy(ap)
    THEN O([k \in DOMAIN ap.v \cup DOMAIN aggregateExpressions |->
              IF k \in DOMAIN aggregateExpressions
              THEN AggregateFinalize(aggregateExpressions[k],
                                     IF k \in DOMAIN ap.v THEN ap.v[k] ELSE Undef)
              ELSE ap.v[k]])
    ELSE ap

\* The scale metrics merged with one more scale value.
MergeMetrics(scaleMetrics, scaleVal) ==
    IF scaleMetrics.min.t = "undefined"
    THEN [min |-> scaleVal, max |-> scaleVal]
    ELSE [min |-> Num(RMin(ToNumber(scaleMetrics.min), ToNumber(scaleVal))),
          max |-> Num(RMax(ToNumber(scaleMetrics.max), ToNumber(scaleVal)))]

\* The end of _finalizeCellInfo: scaled is cellInfo.aggregateProperties[scaleProperty]
\* (or the TypeError of reading it), read only when a scale property is set.
FinalizeScaled(cellInfo, finalized, scaleMetrics, scaleProperty, scaled) ==
    IF IsThrow(scaled) THEN scaled
    ELSE [t |-> "finalized",
          cellInfo |-> [cellInfo EXCEPT
                          !.point_count_abbreviated = Abbreviate(cellInfo.point_count),
                          !.aggregateProperties = finalized],
          scaleMetrics |-> MergeMetrics(scaleMetrics,
                              IF Truthy(scaleProperty) /\ scaled.t # "undefined"
                              THEN scaled ELSE N(cellInfo.point_count))]

\* _finalizeCellInfo once the aggregates are finalized.
FinalizeProperties(cellInfo, finalized, scaleMetrics, scaleProperty) ==
    FinalizeScaled(cellInfo, finalized, scaleMetrics, scaleProperty,
                   IF Truthy(scaleProperty) THEN Prop(finalized, scaleProperty) ELSE Undef)

\* GridMath._finalizeCellInfo: the finalized cell info and the scale metrics merged
\* with its scale value, or the TypeError of reading a property of an undefined
\* aggregateProperties.
FinalizeCellInfo(cellInfo, aggregateExpressions, scaleMetrics, scaleProperty) ==
    FinalizeProperties(cellInfo,
                       FinalizedProperties(cellInfo.aggregateProperties, aggregateExpressions),
                       scaleMetrics, scaleProperty)

(***************************************************************************)
(* The grid.                                                                *)
(***************************************************************************)
\* Object.assign({min, max}, cellInfo): the value a scale expression is evaluated on.
ScaleContext(cellInfo, scaleMetrics) ==
    O([min |-> scaleMetrics.min,
       max |-> scaleMetrics.max,
       cell_id |-> Opaque("cell_id"),
       aggregateProperties |-> cellInfo.aggregateProperties,
       _x |-> Num(cellInfo._x),
       _y |-> Num(cellInfo._y),
       _rightSideUp |-> cellInfo._rightSideUp,
       point_count |-> N(cellInfo.point_count),
       point_count_abbreviated |-> Opaque("point_count_abbreviated")])

\* The switch of createGridPolygon on the grid type.
PolygonOfType(cellInfo, gridType, width, height, arcAngles, minCellWidth, scale) ==
    CASE gridType = S("square") -> GetSquare(cellInfo, width, scale, minCellWidth)
      [] gridType = S("hexCircle") ->
            GetRegularPolygon(cellInfo, RMul(RMul(RMul(InnerRadiusScale, width), Half), scale),
                              arcAngles, minCellWidth)
      [] gridType = S("triangle") -> GetTriangle(cellInfo, width, height, scale, minCellWidth)
      [] gridType = S("pointyHexagon") ->
            GetRegularPolygon(cellInfo, RMul(RMul(height, Half), scale), arcAngles, minCellWidth)
      [] OTHER ->
            GetRegularPolygon(cellInfo, RMul(RMul(width, Half), scale), arcAngles, minCellWidth)

\* createGridPolygon given the coverage and what the scale expression returned
\* (s, undefined without a scale property): s scales the cell only when it is a
\* number other than NaN.
PolygonScaledBy(cellInfo, gridType, width, height, arcAngles, minCellWidth, coverage, s) ==
    IF IsThrow(s) THEN s
    ELSE PolygonOfType(cellInfo, gridType, width, height, arcAngles, minCellWidth,
                       IF s.t = "number" /\ ~IsNaN(s.v) THEN RMul(coverage, s.v) ELSE coverage)

\* GridMath.createGridPolygon: the rings of the cell, or the value thrown.
CreateGridPolygon(cellInfo, options, width, height, arcAngles, minCellWidth, scaleExp, scaleMetrics) ==
    PolygonScaledBy(cellInfo, options.gridType, width, height, arcAngles, minCellWidth,
                    IF Truthy(options.coverage) THEN ToNumber(options.coverage) ELSE RInt(1),
                    IF Truthy(options.scaleProperty)
                    THEN Eval(scaleExp, ScaleContext(cellInfo, scaleMetrics)) ELSE Undef)

RECURSIVE FinalizeCells(_, _, _, _, _)

\* One turn of the first loop of _finalizeGrid, given what _finalizeCellInfo made
\* of cell i.
FinalizedCell(cells, i, aggregateExpressions, scaleProperty, r) ==
    IF IsThrow(r) THEN r
    ELSE FinalizeCells([cells EXCEPT ![i].properties = r.cellInfo], i + 1,
                       aggregateExpressions, r.scaleMetrics, scaleProperty)

\* The first loop of _finalizeGrid: _finalizeCellInfo on cells i.. of the list.
FinalizeCells(cells, i, aggregateExpressions, scaleMetrics, scaleProperty) ==
    IF i > Len(cells) THEN [t |-> "finalized", cells |-> cells, scaleMetrics |-> scaleMetrics]
    ELSE FinalizedCell(cells, i, aggregateExpressions, scaleProperty,
                       FinalizeCellInfo(cells[i].properties, aggregateExpressions,
                                        scaleMetrics, scaleProperty))

\* The index of the first polygon that threw, or one past the last.
FirstThrown(rings) ==
    IF \E i \in 1..Len(rings) : IsThrow(rings[i])
    THEN CHOOSE i \in 1..Len(rings) : IsThrow(rings[i]) /\ \A j \in 1..(i - 1) : ~IsThrow(rings[j])
    ELSE Len(rings) + 1

\* The cells with their coordinates set in order up to cell stop, which threw.
PolygonsUntil(cells, rings, stop) ==
    [cells |-> [i \in 1..Len(cells) |->
                  IF i < stop THEN [cells[i] EXCEPT !.coordinates = rings[i].v] ELSE cells[i]],
     thrown |-> IF stop > Len(cells) THEN Undef ELSE rings[stop]]

\* The polygon loop given what createGridPolygon made of each cell.
PolygonsOf(cells, rings) == PolygonsUntil(cells, rings, FirstThrown(rings))

\* The polygon loop: the cells with their polygons made in order up to the first
\* one that throws, and the value thrown (undefined if none).
Polygons(cells, options, width, height, minCellWidth, scaleExp, scaleMetrics) ==
    PolygonsOf(cells,
               [i \in 1..Len(cells) |->
                  CreateGridPolygon(cells[i].properties, options, width, height,
                                    GetArcAngles(options.gridType), minCellWidth,
                                    scaleExp, scaleMetrics)])

\* The end of _finalizeGrid, given the polygons.
FinalizedGrid(grid, scaleMetrics, p) ==
    IF IsThrow(p.thrown) THEN p.thrown
    ELSE [grid EXCEPT !.cells = p.cells, !.scaleMetrics = scaleMetrics]

\* The second half of _finalizeGrid, given the finalized cells f.
FinalizePolygons(grid, width, height, options, scaleExpression, minCellWidth, f) ==
    IF IsThrow(f) THEN f
    ELSE FinalizedGrid(grid, f.scaleMetrics,
                       Polygons(f.cells, options, width, height, minCellWidth,
                                scaleExpression, f.scaleMetrics))

\* GridMath._finalizeGrid.  With a scale property every cell is finalized before
\* any polygon is made; without one the two are interleaved, and as the polygons
\* then do not read the metrics the result is the same two passes.
FinalizeGrid(grid, width, height, options, aggregateExpressions, scaleExpression, minCellWidth) ==
    FinalizePolygons(grid, width, height, options, scaleExpression, minCellWidth,
                     FinalizeCells(grid.cells, 1, aggregateExpressions,
                                   [min |-> Undef, max |-> Undef], options.scaleProperty))

\* The defaults calculateGrid merges under the options it is given.
WithDefaults(options) ==
    [options EXCEPT
       !.gridType = IF @.t = "undefined" THEN S("hexagon") ELSE @,
       !.cellWidth = IF @.t = "undefined" THEN N(25000) ELSE @,
       !.distanceUnits = IF @.t = "undefined" THEN S("meters") ELSE @,
       !.coverage = IF @.t = "undefined" THEN N(1) ELSE @,
       !.minCellWidth = IF @.t = "undefined" THEN N(0) ELSE @,
       !.scaleExpression = IF @.t = "undefined" THEN LinearPointCountScaleExpression ELSE @]

\* The pixel width of a distance at the center latitude of the options.
PixelDistance(d, options) ==
    RDiv(ConvertDistance(d, options.distanceUnits),
         GetGroundResolutionZ22(options.centerLatitude))

\* Math.min(options.minCellWidth, options.cellWidth) as a pixel width.
MinCellWidth(options) ==
    PixelDistance(RMin(ToNumber(options.minCellWidth), ToNumber(options.cellWidth)), options)

\* options.scaleExpression || LinearPointCountScaleExpression, parsed.
ParseScaleExpression(options) ==
    Parse(IF Truthy(options.scaleExpression) THEN options.scaleExpression
          ELSE LinearPointCountScaleExpression)

\* The grid after _incrementCellInfo returned info for the cell of point i.
Binned(grid, i, cellId, known, cells, cellIdx, info) ==
    IF IsThrow(info) THEN info
    ELSE [grid EXCEPT
            !.cells = [cells EXCEPT ![cellIdx + 1].properties = info.v],
            !.cellLookupTable = IF known THEN @ ELSE (cellId :> cellIdx) @@ @,
            !.pointLookupTable = IF known THEN [@ EXCEPT ![cellId] = Append(@, i)]
                                 ELSE (cellId :> <<i>>) @@ @]

\* _incrementCellInfo on the cell _getGridCell returned.
BinInto(grid, i, c, cellId, known, cells, cellIdx) ==
    Binned(grid, i, cellId, known, cells, cellIdx,
           IncrementCellInfo(cells[cellIdx + 1].properties, c.points[i + 1],
                             c.aggregateProperties, c.mapExpressions))

\* _getGridCell creating a cell whether or not the lookup table has its id.
GetGridCellAnew(grid, i, c, coord, cellId, known) ==
    BinInto(grid, i, c, cellId, FALSE,
            Append(grid.cells,
                   CreateCellFromCubeCoord(cellId, coord, c.gridType, c.width, c.height,
                                           c.hasAggregates)),
            Len(grid.cells))

\* GridMath._getGridCell: the cell of the id is looked up, or created and
\* appended to the cells.
GetGridCell(grid, i, c, coord, cellId, known) ==
    BinInto(grid, i, c, cellId, known,
            IF known THEN grid.cells
            ELSE Append(grid.cells,
                        CreateCellFromCubeCoord(cellId, coord, c.gridType, c.width, c.height,
                                                c.hasAggregates)),
            IF known THEN grid.cellLookupTable[cellId] ELSE Len(grid.cells))

\* The cell id of a cube coordinate.
BinAt(grid, i, c, coord) ==
    GetGridCell(grid, i, c, coord, <<coord.col, coord.row, coord.z>>,
                <<coord.col, coord.row, coord.z>> \in DOMAIN grid.cellLookupTable)

\* The body of the binning loop of calculateGrid for point i (zero-based): the
\* grid after the point was put in its cell, or the value thrown.
BinPoint(grid, i, c) ==
    BinAt(grid, i, c, GetCellCoord(c.pixels[i + 1], c.width, c.height, c.gridType))

RECURSIVE BinPoints(_, _, _)

\* The binning loop goes on unless the body threw.
BinNext(g, i, c) == IF IsThrow(g) THEN g ELSE BinPoints(g, i + 1, c)

\* The binning loop of calculateGrid from point i on.
BinPoints(grid, i, c) ==
    IF i >= Len(c.points) THEN grid ELSE BinNext(BinPoint(grid, i, c), i, c)

\* calculateGrid without the try/catch of _parseMapExpressions: an aggregate that
\* does not parse ends the call.
CalculatedUncaught(binned, width, height, options, pm, scaleExpression, minCellWidth) ==
    [value |-> IF Truthy(pm.aggregateProperties)
                  /\ \E k \in DOMAIN pm.aggregateProperties.v :
                        pm.aggregateProperties.v[k] = Undef
               THEN Throw("Invalid expression")
               ELSE IF IsThrow(scaleExpression) THEN scaleExpression
               ELSE IF IsThrow(binned) THEN binned
               ELSE FinalizeGrid(binned, width, height, options, pm.mapExpressions,
                                 scaleExpression, minCellWidth),
     aggregateProperties |-> pm.aggregateProperties]

\* calculateGrid after the loop: _finalizeGrid unless something threw.
Calculated(binned, width, height, options, pm, scaleExpression, minCellWidth) ==
    [value |-> IF IsThrow(scaleExpression) THEN scaleExpression
               ELSE IF IsThrow(binned) THEN binned
               ELSE FinalizeGrid(binned, width, height, options, pm.mapExpressions,
                                 scaleExpression, minCellWidth),
     aggregateProperties |-> pm.aggregateProperties]

\* calculateGrid from the initialization of gridInfo on.
CalculateCells(pts, pxs, options, hasAggregates, pm, width, height) ==
    Calculated(BinPoints([t |-> "gridInfo", cells |-> <<>>, cellLookupTable |-> <<>>,
                          pointLookupTable |-> <<>>, width |-> width, height |-> height,
                          scaleMetrics |-> Undef],
                         0,
                         [points |-> pts, pixels |-> pxs, width |-> width,
                          height |-> height, gridType |-> options.gridType,
                          hasAggregates |-> hasAggregates,
                          aggregateProperties |-> pm.aggregateProperties,
                          mapExpressions |-> pm.mapExpressions]),
               width, height,
               [options EXCEPT !.aggregateProperties = pm.aggregateProperties],
               pm, ParseScaleExpression(options), MinCellWidth(options))

\* calculateGrid from the parse of the aggregates on.
CalculateWidth(pts, pxs, options, hasAggregates, pm, width) ==
    CalculateCells(pts, pxs, options, hasAggregates, pm, width,
                   CellHeight(width, options.gridType))

\* calculateGrid once the options are merged with the defaults.
CalculateWith(pts, pxs, options, hasAggregates) ==
    CalculateWidth(pts, pxs, options, hasAggregates,
                   IF hasAggregates THEN ParseMapExpressions(options.aggregateProperties)
                   ELSE [mapExpressions |-> EmptyObj.v,
                         aggregateProperties |-> options.aggregateProperties],
                   PixelDistance(ToNumber(options.cellWidth), options))

\* hasAggregates of calculateGrid
HasAggregates(options) ==
    Truthy(options.aggregateProperties) /\ DOMAIN options.aggregateProperties.v # {}

\* GridMath.calculateGrid: the grid (or the value thrown) and the
\* aggregateProperties object of the options as the call leaves it.
CalculateGrid(pts, pxs, options) ==
    CalculateWith(pts, pxs, WithDefaults(options), HasAggregates(WithDefaults(options)))

\* recalculateCoords given the parsed scale expression.
RecalculateWith(grid, options, scaleExpression) ==
    IF IsThrow(scaleExpression) THEN [grid |-> grid, thrown |-> scaleExpression]
    ELSE Polygons(grid.cells, options, grid.width, grid.height, MinCellWidth(options),
                  scaleExpression, grid.scaleMetrics)

\* recalculateCoords emptying the scale metrics of the grid it is given.
RecalculatedAfresh(grid, r) ==
    [grid |-> IF "cells" \in DOMAIN r
              THEN [grid EXCEPT !.cells = r.cells, !.scaleMetrics = [min |-> Undef, max |-> Undef]]
              ELSE grid,
     thrown |-> r.thrown]

\* The grid of recalculateCoords with the cells its loop left.
Recalculated(grid, r) ==
    [grid |-> IF "cells" \in DOMAIN r THEN [grid EXCEPT !.cells = r.cells] ELSE grid,
     thrown |-> r.thrown]

\* GridMath.recalculateCoords: the polygon of every cell is made again, in place,
\* from the stored width, height and scale metrics.  The grid as the call leaves
\* it, and the value thrown (undefined if none).
RecalculateCoords(grid, options) ==
    Recalculated(grid, RecalculateWith(grid, options, ParseScaleExpression(options)))

(***************************************************************************)
(* GriddedDataSource.                                                      *)
(***************************************************************************)
\* An options object with no key set; Partial(f) is the object literal f.
NoOptions ==
    [maxZoom |-> Undef, cellWidth |-> Undef, minCellWidth |-> Undef,
     distanceUnits |-> Undef, gridType |-> Undef, coverage |-> Undef,
     centerLatitude |-> Undef, aggregateProperties |-> Undef,
     scaleExpression |-> Undef, scaleProperty |-> Undef]

Partial(f) == f @@ NoOptions

\* The initializer of the _options field.
DefaultOptions ==
    Partial([maxZoom |-> N(18), cellWidth |-> N(25000), minCellWidth |-> N(0),
             distanceUnits |-> S("meters"), gridType |-> S("hexagon"),
             coverage |-> N(1), centerLatitude |-> N(0)])

\* Object.assign(target, source) on options objects.
Assign(target, source) ==
    [k \in DOMAIN target |-> IF source[k].t = "undefined" THEN target[k] ELSE source[k]]

\* A point feature: ref is the identity of the object, id its GeoJSON id.
Feature(ref, id, lon, lat, properties) ==
    [ref |-> ref, id |-> id, coordinates |-> <<lon, lat>>, properties |-> properties]

\* GriddedDataSource._normalizeGetPixel22.  The positions of the model are within
\* range, where normalizeLongitude and normalizeLatitude change nothing.
NormalizeGetPixel22(pos) == ToPixel22(pos)

\* GriddedDataSource._addPoints for a list of point features: the fields after it.
AddPoints(pt, px, list) ==
    [points |-> pt \o list,
     pixels |-> px \o [i \in 1..Len(list) |-> NormalizeGetPixel22(list[i].coordinates)]]

\* Array.prototype.splice(start, 1): a negative start counts from the end.
Splice1(arr, start) ==
    LET n == Len(arr)
        at == IF start < 0 THEN (IF n + start < 0 THEN 0 ELSE n + start) ELSE start
    IN  IF at >= n THEN arr
        ELSE SubSeq(arr, 1, at) \o SubSeq(arr, at + 2, n)

\* pt.indexOf(feature): the zero-based index of the first entry that is the same
\* object, or -1.
IndexOfFeature(pt, feature) ==
    IF \E i \in 1..Len(pt) : pt[i].ref = feature.ref
    THEN (CHOOSE i \in 1..Len(pt) :
              pt[i].ref = feature.ref /\ \A j \in 1..(i - 1) : pt[j].ref # feature.ref) - 1
    ELSE -1

\* The loop of _remove over ids: the zero-based index of the first point with
\* that id, or the length of the list if there is none.
IndexOfId(pt, id) ==
    IF \E i \in 1..Len(pt) : StrictEq(pt[i].id, id)
    THEN (CHOOSE i \in 1..Len(pt) :
              StrictEq(pt[i].id, id) /\ \A j \in 1..(i - 1) : ~StrictEq(pt[j].id, id)) - 1
    ELSE Len(pt)

\* GriddedDataSource._remove for a number, a string or a feature: the _points
\* field after it.  The _pixels field is not touched.
RemovePoint(pt, point) ==
    CASE point.t = "number" ->
            IF point.v.d = 1 /\ point.v.n < Len(pt) THEN Splice1(pt, point.v.n) ELSE pt
      [] point.t = "string" ->
            LET i == IndexOfId(pt, point)
            IN  IF i < Len(pt) THEN Splice1(pt, i) ELSE pt
      [] point.t = "feature" ->
            LET idx == IndexOfFeature(pt, point.v)
            IN  IF idx < Len(pt) THEN Splice1(pt, idx) ELSE pt

\* JSON.parse(JSON.stringify(v)) of an entry of an array: undefined becomes
\* null, a feature becomes a new object (ref 0) with the same members.
JsonCopy(v) == IF v = Undef THEN Null ELSE [v EXCEPT !.ref = 0]

\* GriddedDataSource.getCellChildren: the copies of the entries of _points at the
\* indices that _gridInfo.pointLookupTable lists for the cell.  An index behind
\* the end of _points reads undefined.
GetCellChildren(grid, pt, cell_id) ==
    IF grid = Undef THEN Throw("TypeError")
    ELSE IF cell_id \in DOMAIN grid.pointLookupTable
    THEN [k \in 1..Len(grid.pointLookupTable[cell_id]) |->
            JsonCopy(IF grid.pointLookupTable[cell_id][k] < Len(pt)
                     THEN pt[grid.pointLookupTable[cell_id][k] + 1] ELSE Undef)]
    ELSE <<>>

\* _recalculate without the throttle: every call asks for a frame of its own.
RecalculateUnthrottled ==
    /\ requestId' = IF requestId.t # "undefined" THEN N(requestId.v.n + 1) ELSE N(1)
    /\ pending' = TRUE

\* GriddedDataSource._recalculate: ask for an animation frame unless one was
\* asked for and _requestId was not reset since.
Recalculate ==
    IF requestId.t # "undefined"
    THEN UNCHANGED <<requestId, pending>>
    ELSE requestId' = N(1) /\ pending' = TRUE

\* The values the calls are made with.
MaxCalls == 2

Value(v) == O([value |-> N(v)])

PointA == Feature(1, S("a"), 0, 0, Value(1))
PointB == Feature(2, S("b"), 1, 0, Value(2))
PointC == Feature(3, S("c"), 45, 41, Value(5))
PointD == Feature(4, Undef, -90, 0, Undef)

SamplePoints == {PointA, PointC, PointD}
SamplePointLists == {<<PointA, PointB, PointC>>, <<>>}

Totals == O([total |-> A(<<S("+"), Get1("value")>>)])
TotalsFrom10 == O([total |-> A(<<S("+"), N(10), Get1("value")>>)])
NotAnExpression == A(<<S("nope"), N(1)>>)

ConstructorOptions ==
    {Undef,
     Partial([aggregateProperties |-> Totals, scaleProperty |-> S("total")]),
     Partial([scaleProperty |-> S("point_count")]),
     Partial([gridType |-> S("square"), aggregateProperties |-> TotalsFrom10])}

OptionChanges ==
    {Partial([cellWidth |-> N(50000)]),
     Partial([cellWidth |-> N(0)]),
     Partial([cellWidth |-> N(-5)]),
     Partial([minCellWidth |-> N(12500)]),
     Partial([maxZoom |-> N(10)]),
     Partial([centerLatitude |-> N(60)]),
     Partial([distanceUnits |-> S("kilometers")]),
     Partial([gridType |-> S("hexCircle")]),
     Partial([gridType |-> S("circle")]),
     Partial([gridType |-> S("triangle")]),
     Partial([gridType |-> S("bogus")]),
     Partial([coverage |-> Num(Half)]),
     Partial([scaleProperty |-> S("point_count")]),
     Partial([scaleProperty |-> S("total")]),
     Partial([scaleProperty |-> Null]),
     Partial([scaleExpression |-> NotAnExpression]),
     Partial([aggregateProperties |-> Totals]),
     Partial([aggregateProperties |-> O([bad |-> NotAnExpression])]),
     Partial([cellWidth |-> N(-5), coverage |-> Num(Half)]),
     Partial([maxZoom |-> N(30), minCellWidth |-> S("12500"), gridType |-> S("square")])}

RemoveArguments ==
    {N(0), N(5), S("a"), S("zz"),
     [t |-> "feature", v |-> PointC],
     [t |-> "feature", v |-> Feature(9, S("a"), 0, 0, Value(1))]}

\* The state after `new GriddedDataSource(id, options)`.
New(options) ==
    /\ opt = IF options # Undef THEN Assign(DefaultOptions, options) ELSE DefaultOptions
    /\ superOptions = IF options # Undef
                      THEN [buffer |-> N(8), tolerance |-> N(0), maxZoom |-> options.maxZoom]
                      ELSE [buffer |-> Undef, tolerance |-> Undef, maxZoom |-> Undef]
    /\ points = <<>>
    /\ pixels = <<>>
    /\ gridInfo = Undef
    /\ requestId = Undef
    /\ pending = FALSE
    /\ shapes = <<>>
    /\ thrown = Undef
    /\ last = [op |-> "new", arg |-> Undef]
    /\ calls = 0

\* No expression is under test.
XOff == xExp = Undef /\ xCtx = Undef /\ xAst = Undef /\ xVal = Undef /\ xPc = "off"

\* GridMath is not called on its own.
GOff == gPoints = <<>> /\ gOptions = Undef /\ gGrid = Undef /\ gPc = "off"

\* The function harness at rest.
MOff == mIn = Undef /\ mOut = Undef /\ mPc = "off"

Init == (\E options \in ConstructorOptions : New(options)) /\ XOff /\ GOff /\ MOff

\* add(point)
Add ==
    /\ calls < MaxCalls
    /\ \E p \in SamplePoints :
          /\ points' = AddPoints(points, pixels, <<p>>).points
          /\ pixels' = AddPoints(points, pixels, <<p>>).pixels
          /\ last' = [op |-> "add", arg |-> p]
    /\ Recalculate
    /\ thrown' = Undef
    /\ calls' = calls + 1
    /\ UNCHANGED <<opt, gridInfo, shapes, superOptions, xVars, gVars, mVars>>

\* setPoints(list)
SetPoints ==
    /\ calls < MaxCalls
    /\ \E list \in SamplePointLists :
          /\ points' = AddPoints(<<>>, <<>>, list).points
          /\ pixels' = AddPoints(<<>>, <<>>, list).pixels
          /\ last' = [op |-> "setPoints", arg |-> list]
    /\ Recalculate
    /\ thrown' = Undef
    /\ calls' = calls + 1
    /\ UNCHANGED <<opt, gridInfo, shapes, superOptions, xVars, gVars, mVars>>

\* clear(): the base DataSource is emptied; no recompute is asked for and
\* _gridInfo is kept.
Clear ==
    /\ calls < MaxCalls
    /\ points' = <<>>
    /\ pixels' = <<>>
    /\ shapes' = <<>>
    /\ last' = [op |-> "clear", arg |-> Undef]
    /\ thrown' = Undef
    /\ calls' = calls + 1
    /\ UNCHANGED <<opt, gridInfo, requestId, pending, superOptions, xVars, gVars, mVars>>

\* remove(point) for an index, an id or a feature
Remove ==
    /\ calls < MaxCalls
    /\ \E point \in RemoveArguments :
          /\ points' = RemovePoint(points, point)
          /\ last' = [op |-> "remove", arg |-> point]
    /\ Recalculate
    /\ thrown' = Undef
    /\ calls' = calls + 1
    /\ UNCHANGED <<opt, pixels, gridInfo, shapes, superOptions, xVars, gVars, mVars>>

\* removeById(id)
RemoveById ==
    /\ calls < MaxCalls
    /\ \E id \in {S("a"), S("zz"), N(0)} :
          /\ points' = RemovePoint(points, id)
          /\ last' = [op |-> "removeById", arg |-> id]
    /\ Recalculate
    /\ thrown' = Undef
    /\ calls' = calls + 1
    /\ UNCHANGED <<opt, pixels, gridInfo, shapes, superOptions, xVars, gVars, mVars>>

SquareSystem == {S("square"), S("circle")}
HexagonSystem == {S("hexagon"), S("hexCircle")}

\* The decisions of setOptions on an options object: which options it stores.
AcceptsMaxZoom(options) ==
    /\ options.maxZoom.t = "number"
    /\ RLe(RInt(0), options.maxZoom.v) /\ RLt(options.maxZoom.v, RInt(25))
    /\ ~StrictEq(options.maxZoom, opt.maxZoom)

AcceptsCellWidth(options) ==
    /\ options.cellWidth.t = "number"
    /\ RLt(RInt(0), options.cellWidth.v)
    /\ ~StrictEq(options.cellWidth, opt.cellWidth)

AcceptsMinCellWidth(options) ==
    /\ options.minCellWidth.t = "number"
    /\ RLe(RInt(0), options.minCellWidth.v)
    /\ ~StrictEq(options.minCellWidth, opt.minCellWidth)

AcceptsCenterLatitude(options) ==
    options.centerLatitude.t # "undefined" /\ ~StrictEq(options.centerLatitude, opt.centerLatitude)

AcceptsDistanceUnits(options) ==
    Truthy(options.distanceUnits) /\ ~StrictEq(options.distanceUnits, opt.distanceUnits)

\* Any truthy grid type that differs from the stored one is stored.
AcceptsGridType(options) ==
    Truthy(options.gridType) /\ ~StrictEq(options.gridType, opt.gridType)

SameGridSystem(options) ==
    \/ opt.gridType \in HexagonSystem /\ options.gridType \in HexagonSystem
    \/ opt.gridType \in SquareSystem /\ options.gridType \in SquareSystem

AcceptsAggregateProperties(options) == options.aggregateProperties.t # "undefined"

AcceptsScaleExpression(options) ==
    /\ options.scaleExpression.t # "undefined"
    /\ ~StrictEq(options.scaleExpression, opt.scaleExpression)

AcceptsScaleProperty(options) ==
    options.scaleProperty.t # "undefined" /\ ~StrictEq(options.scaleProperty, opt.scaleProperty)

AcceptsCoverage(options) ==
    options.coverage.t # "undefined" /\ ~StrictEq(options.coverage, opt.coverage)

\* setOptions assigning the supplied options over the stored ones.
StoredOptionsAssigned(options) ==
    [field \in DOMAIN opt |-> IF options[field] # Undef THEN options[field] ELSE opt[field]]

\* _options after setOptions(options)
StoredOptions(options) ==
    LET keep(field, accepted) == IF accepted THEN options[field] ELSE opt[field]
    IN  [maxZoom |-> keep("maxZoom", AcceptsMaxZoom(options)),
         cellWidth |-> keep("cellWidth", AcceptsCellWidth(options)),
         minCellWidth |-> keep("minCellWidth", AcceptsMinCellWidth(options)),
         centerLatitude |-> keep("centerLatitude", AcceptsCenterLatitude(options)),
         distanceUnits |-> keep("distanceUnits", AcceptsDistanceUnits(options)),
         gridType |-> keep("gridType", AcceptsGridType(options)),
         aggregateProperties |-> keep("aggregateProperties", AcceptsAggregateProperties(options)),
         scaleExpression |-> keep("scaleExpression", AcceptsScaleExpression(options)),
         scaleProperty |-> keep("scaleProperty", AcceptsScaleProperty(options)),
         coverage |-> keep("coverage", AcceptsCoverage(options))]

\* fullCalcNeeded at the end of setOptions(options)
FullCalcNeeded(options) ==
    \/ AcceptsCellWidth(options)
    \/ AcceptsCenterLatitude(options)
    \/ AcceptsDistanceUnits(options)
    \/ AcceptsGridType(options) /\ ~SameGridSystem(options)
    \/ AcceptsAggregateProperties(options)
    \/ AcceptsScaleProperty(options)
          /\ ~(options.scaleProperty.t = "null" \/ options.scaleProperty = S("point_count"))

\* coordCalcNeeded at the end of setOptions(options).  The test of the scale
\* property made for a new scale expression reads the stored property before the
\* new one is stored.
CoordCalcNeeded(options) ==
    \/ AcceptsMinCellWidth(options)
    \/ AcceptsGridType(options) /\ SameGridSystem(options)
    \/ AcceptsScaleExpression(options)
          /\ (Truthy(options.scaleProperty) \/ Truthy(opt.scaleProperty))
    \/ AcceptsScaleProperty(options)
          /\ (options.scaleProperty.t = "null" \/ options.scaleProperty = S("point_count"))
    \/ AcceptsCoverage(options)

\* GriddedDataSource._recalculateCoords, given what GridMath.recalculateCoords
\* left: _updateCells is not reached when it threw.
RecalculateCoordsDone(r) ==
    /\ gridInfo' = r.grid
    /\ thrown' = r.thrown
    /\ shapes' = IF IsThrow(r.thrown) THEN shapes ELSE r.grid.cells
    /\ UNCHANGED <<requestId, pending>>

\* setOptions(options), given the options it stores.
SetOptionsTo(options, stored) ==
    /\ opt' = stored
    /\ superOptions' = IF AcceptsMaxZoom(options)
                       THEN [superOptions EXCEPT !.maxZoom = options.maxZoom]
                       ELSE superOptions
    /\ last' = [op |-> "setOptions", arg |-> options]
    /\ IF FullCalcNeeded(options) \/ gridInfo.t = "undefined"
       THEN /\ Recalculate
            /\ thrown' = Undef
            /\ UNCHANGED <<gridInfo, shapes>>
       ELSE IF CoordCalcNeeded(options)
       THEN RecalculateCoordsDone(RecalculateCoords(gridInfo, stored))
       ELSE /\ thrown' = Undef
            /\ UNCHANGED <<gridInfo, shapes, requestId, pending>>

\* setOptions(options) for an options object
SetOptions ==
    /\ calls < MaxCalls
    /\ \E options \in OptionChanges : SetOptionsTo(options, StoredOptions(options))
    /\ calls' = calls + 1
    /\ UNCHANGED <<points, pixels, xVars, gVars, mVars>>

\* The animation frame callback, given what calculateGrid returned: when it
\* threw, _updateCells and the reset of _requestId are not reached.
FrameDone(r) ==
    /\ opt' = [opt EXCEPT !.aggregateProperties = r.aggregateProperties]
    /\ IF IsThrow(r.value)
       THEN /\ thrown' = r.value
            /\ UNCHANGED <<gridInfo, shapes, requestId>>
       ELSE /\ thrown' = Undef
            /\ gridInfo' = r.value
            /\ shapes' = r.value.cells
            /\ requestId' = Undef

\* The animation frame callback queued by _recalculate: calculateGrid, then
\* _updateCells, then _requestId is reset.
Frame ==
    /\ pending
    /\ pending' = FALSE
    /\ FrameDone(CalculateGrid(points, pixels, opt))
    /\ last' = [op |-> "frame", arg |-> Undef]
    /\ UNCHANGED <<points, pixels, superOptions, calls, xVars, gVars, mVars>>

Next == Add \/ SetPoints \/ Clear \/ Remove \/ RemoveById \/ SetOptions \/ Frame

Spec == Init /\ [][Next]_vars

(***************************************************************************)
(* The expression engine on its own.                                       *)
(***************************************************************************)
InitExpr == New(Undef) /\ XInit /\ GOff /\ MOff

NextExpr == XParse \/ XEval

SpecExpr == InitExpr /\ [][NextExpr]_vars

\* C5: every expression form the documentation lists under "Supported
\* data-driven expressions", given well-formed operands, is accepted by
\* Expression.parse: the parse returns an expression and does not throw.
C5_DocumentedFormsAreParsed ==
    (xPc \in {"parsed", "evaluated"} /\ xExp \in DocumentedForms) => ~IsThrow(xAst)

\* ['case', ['>', ['get', 'n'], 10], 'big', 'small']
CaseExample == A(<<S("case"), A(<<S(">"), Get1("n"), N(10)>>), S("big"), S("small")>>)

RECURSIVE CaseOutput(_, _, _)

\* What the documentation says a 'case' expression returns: the output paired with
\* the first condition (operand 2k - 1, output at operand 2k) that is true, and
\* the last operand, the fallback, when none is.
CaseOutput(exp, ctx, k) ==
    IF 2 * k >= Len(exp.v) THEN Eval(Parse(exp.v[Len(exp.v)]), ctx)
    ELSE IF Eval(Parse(exp.v[2 * k]), ctx) = B(TRUE) THEN Eval(Parse(exp.v[2 * k + 1]), ctx)
    ELSE CaseOutput(exp, ctx, k + 1)

\* C6: a 'case' expression is parsed and evaluates to the output paired with the
\* first condition that is true, or to the trailing fallback when no condition is
\* true; ['case', ['>', ['get', 'n'], 10], 'big', 'small'] on {n: 5} is 'small'.
C6_CaseReturnsFirstTrueOrFallback ==
    (xPc = "evaluated" /\ IsArray(xExp) /\ Len(xExp.v) > 0 /\ xExp.v[1] = S("case"))
        => /\ xVal = CaseOutput(xExp, xCtx, 1)
           /\ (xExp = CaseExample /\ xCtx = Bag(5)) => xVal = S("small")

(***************************************************************************)
(* GridMath on its own: calculateGrid on a list of points and an options   *)
(* object, then recalculateCoords on the grid it returned.                 *)
(***************************************************************************)
\* The longest list of points given to calculateGrid.
MaxPoints == 3

Measured(ref, lon, lat, value, flag) ==
    Feature(ref, Undef, lon, lat, O([value |-> N(value), flag |-> B(flag)]))

\* Three points close to each other, one far from them, one without properties.
GridPoints ==
    {Measured(1, 0, 0, 1, TRUE), Measured(2, 1, 0, 2, TRUE), Measured(3, 0, 0, 3, FALSE),
     Measured(4, 45, 41, 5, FALSE), PointD}

GridPointLists == UNION {[1..n -> GridPoints] : n \in 0..MaxPoints}

AggregateOperators == {"+", "*", "min", "max", "all", "any"}

\* Aggregates of which one does not parse: its map expression names no
\* expression, or it has no map expression at all.
OneInvalid ==
    O([bad |-> A(<<S("+"), NotAnExpression>>), total |-> A(<<S("+"), Get1("value")>>)])
OneTooShort ==
    O([bad |-> A(<<S("max")>>), total |-> A(<<S("max"), N(0), Get1("value")>>)])
OnlyInvalid == O([bad |-> A(<<S("+"), N(1), NotAnExpression>>)])

\* [operator, mapExpression]
Folded(o) == O([folded |-> A(<<S(o), Get1(IF o \in {"all", "any"} THEN "flag" ELSE "value")>>)])

GridOptions ==
    {Assign(DefaultOptions, o) :
        o \in {Partial([aggregateProperties |-> Folded(op)]) : op \in AggregateOperators}
              \cup {NoOptions,
                    Partial([aggregateProperties |-> TotalsFrom10]),
                    Partial([aggregateProperties |-> OneInvalid]),
                    Partial([aggregateProperties |-> OneTooShort, scaleProperty |-> S("bad")]),
                    Partial([aggregateProperties |-> OnlyInvalid]),
                    Partial([aggregateProperties |-> Totals, scaleProperty |-> S("total")]),
                    Partial([scaleProperty |-> S("point_count")]),
                    Partial([scaleExpression |-> NotAnExpression]),
                    Partial([gridType |-> S("square"), aggregateProperties |-> Folded("+")]),
                    Partial([gridType |-> S("triangle"), aggregateProperties |-> Folded("max")])}}

\* One point inside the map and one point next to each side of the antimeridian.
GeometryPoints ==
    {Measured(4, 45, 41, 5, FALSE), Measured(5, 179, 0, 7, TRUE), Measured(6, -179, 0, 8, TRUE)}

GeometryPointLists == UNION {[1..n -> GeometryPoints] : n \in 0..MaxPoints}

\* The six grid types with the default cell width and full coverage, three of
\* them with cells twice as wide covered by half, and two covered by a quarter
\* with a minimum cell width over that.
GeometryOptions ==
    {Assign(DefaultOptions, o) :
        o \in {Partial([gridType |-> S(g)]) : g \in GridTypes}
              \cup {Partial([gridType |-> S(g), cellWidth |-> N(50000), coverage |-> Num(Half)]) :
                       g \in {"square", "triangle", "hexagon"}}
              \cup {Partial([gridType |-> S(g), coverage |-> Num(Rat(1, 4)),
                             minCellWidth |-> N(20000)]) : g \in {"square", "triangle"}}}

\* Changes of the options that setOptions answers with recalculateCoords.
CoordinateChanges ==
    {Partial([coverage |-> Num(Half)]),
     Partial([minCellWidth |-> N(12500)]),
     Partial([scaleExpression |-> NotAnExpression])}

GInit ==
    /\ \/ gPoints \in GridPointLists /\ gOptions \in GridOptions
       \/ gPoints \in GeometryPointLists /\ gOptions \in GeometryOptions
    /\ gGrid = Undef
    /\ gPc = "input"

\* The pixels GriddedDataSource keeps for a list of points.
PixelsOf(pts) == [i \in 1..Len(pts) |-> NormalizeGetPixel22(pts[i].coordinates)]

\* What GCalculate leaves, given what calculateGrid returned.
GCalculated(r) ==
    /\ gGrid' = r.value
    /\ gOptions' = [gOptions EXCEPT !.aggregateProperties = r.aggregateProperties]

\* GridMath.calculateGrid(gPoints, pixels, gOptions)
GCalculate ==
    /\ gPc = "input"
    /\ GCalculated(CalculateGrid(gPoints, PixelsOf(gPoints), gOptions))
    /\ gPc' = "calculated"
    /\ UNCHANGED <<gPoints, dsVars, xVars, mVars>>

\* What GRecalculateCoords leaves, given what recalculateCoords left.
GRecalculated(r) ==
    gGrid' = IF IsThrow(r.thrown) THEN r.thrown ELSE r.grid

\* GridMath.recalculateCoords(gGrid, options) after a change of the options
GRecalculateCoords ==
    /\ gPc = "calculated"
    /\ ~IsThrow(gGrid)
    /\ \E change \in CoordinateChanges :
          /\ gOptions' = Assign(gOptions, change)
          /\ GRecalculated(RecalculateCoords(gGrid, Assign(gOptions, change)))
    /\ gPc' = "recalculated"
    /\ UNCHANGED <<gPoints, dsVars, xVars, mVars>>

\* GridMath.calculateGrid once more, on the same points and pixels and on the
\* options object as the first call left it
GCalculateAgain ==
    /\ gPc = "calculated"
    /\ GCalculated(CalculateGrid(gPoints, PixelsOf(gPoints), gOptions))
    /\ gPc' = "calculated again"
    /\ UNCHANGED <<gPoints, dsVars, xVars, mVars>>

InitGrid == New(Undef) /\ XOff /\ GInit /\ MOff

NextGrid == GCalculate \/ GRecalculateCoords \/ GCalculateAgain

SpecGrid == InitGrid /\ [][NextGrid]_vars

(***************************************************************************)
(* A harness calling GridMath._roundCubeCoord and GridMath._finalizeCellInfo *)
(* on one input each.                                                        *)
(***************************************************************************)

\* Fractional coordinates range over the thirds and quarters of -MaxCube .. MaxCube.
MaxCube == 2

Fractions ==
    {Rat(k, 3) : k \in -(3 * MaxCube) .. 3 * MaxCube}
        \cup {Rat(k, 4) : k \in -(4 * MaxCube) .. 4 * MaxCube}

\* The fractional cube coordinates of the cell assigners: row = -col - z.
CubeCoords ==
    {[col |-> col, row |-> RSub(RNeg(col), z), z |-> z] : col \in Fractions, z \in Fractions}

\* Point counts around the thresholds of the abbreviation.
PointCounts ==
    {0, 1, 12, 999, 1000, 1001, 1499, 1500, 2500, 4000, 999499, 999500, 999999,
     1000000, 1000001, 1499999, 1500000, 2500000, 3500000, 12345678}

\* A cell as _createCell makes it, after count points were added to it.
CellInfos ==
    {[CreateCell("0|0", RInt(0), RInt(0), Undef, FALSE).properties EXCEPT !.point_count = count] :
        count \in PointCounts}

MInit ==
    \/ mIn \in CubeCoords /\ mOut = Undef /\ mPc = "coord"
    \/ mIn \in CellInfos /\ mOut = Undef /\ mPc = "cellInfo"

\* GridMath._roundCubeCoord(coord)
MRoundCubeCoord ==
    /\ mPc = "coord"
    /\ mOut' = RoundCubeCoord(mIn)
    /\ mPc' = "rounded"
    /\ UNCHANGED <<mIn, dsVars, xVars, gVars>>

\* GridMath._finalizeCellInfo(cellInfo, {}, scaleMetrics) with empty scale metrics
MFinalizeCellInfo ==
    /\ mPc = "cellInfo"
    /\ mOut' = FinalizeCellInfo(mIn, <<>>, [min |-> Undef, max |-> Undef], Undef)
    /\ mPc' = "finalized"
    /\ UNCHANGED <<mIn, dsVars, xVars, gVars>>

InitMath == New(Undef) /\ XOff /\ GOff /\ MInit

NextMath == MRoundCubeCoord \/ MFinalizeCellInfo

SpecMath == InitMath /\ [][NextMath]_vars

\* The cells of the grid calculateGrid returned.
GridCells == IF gPc = "off" \/ gPc = "input" \/ IsThrow(gGrid) THEN {} ELSE 1..Len(gGrid.cells)

\* The points of gPoints assigned to cell c, in the order they were assigned.
Assigned(c) ==
    [j \in 1..Len(gGrid.pointLookupTable[gGrid.cells[c].properties.cell_id]) |->
       gPoints[gGrid.pointLookupTable[gGrid.cells[c].properties.cell_id][j] + 1]]

\* The values of the map expression of aggregate agg on the points of cell c.
Mapped(agg, c) ==
    [j \in 1..Len(Assigned(c)) |->
       Eval(Parse(agg.v[Len(agg.v)]), Assigned(c)[j].properties)]

RECURSIVE SumOf(_, _)
SumOf(vals, n) == IF n = 0 THEN RInt(0) ELSE RAdd(SumOf(vals, n - 1), vals[n].v)

RECURSIVE ProductOf(_, _)
ProductOf(vals, n) == IF n = 0 THEN RInt(1) ELSE RMul(ProductOf(vals, n - 1), vals[n].v)

\* The operator folded over a non-empty list of numbers (booleans for all, any).
FoldOf(o, vals) ==
    CASE o = "+" -> Num(SumOf(vals, Len(vals)))
      [] o = "*" -> Num(ProductOf(vals, Len(vals)))
      [] o = "min" -> CHOOSE m \in {vals[j] : j \in 1..Len(vals)} :
                         \A j \in 1..Len(vals) : RLe(m.v, vals[j].v)
      [] o = "max" -> CHOOSE m \in {vals[j] : j \in 1..Len(vals)} :
                         \A j \in 1..Len(vals) : RLe(vals[j].v, m.v)
      [] o = "all" -> B(\A j \in 1..Len(vals) : vals[j] = B(TRUE))
      [] o = "any" -> B(\E j \in 1..Len(vals) : vals[j] = B(TRUE))

\* The aggregates of the options of the form [operator, mapExpression].
WithoutInitialValue ==
    IF gOptions = Undef \/ ~Truthy(gOptions.aggregateProperties) THEN {}
    ELSE {k \in DOMAIN gOptions.aggregateProperties.v :
            /\ IsArray(gOptions.aggregateProperties.v[k])
            /\ Len(gOptions.aggregateProperties.v[k].v) = 2
            /\ IsArray(gOptions.aggregateProperties.v[k].v[2])
            /\ gOptions.aggregateProperties.v[k].v[1].v \in AggregateOperators}

\* C2: for an aggregate [operator, mapExpression] with operator +, *, min, max,
\* all or any, after calculateGrid the aggregate value of every cell is the
\* operator folded over the map-expression values of the points assigned to the
\* cell (values 1, 2, 3 give 6 with '+' and 3 with 'max').
C2_AggregateIsFoldOverCellPoints ==
    gPc = "calculated" =>
        \A c \in GridCells : \A k \in WithoutInitialValue :
            gGrid.cells[c].properties.aggregateProperties.v[k]
                = FoldOf(gOptions.aggregateProperties.v[k].v[1].v,
                         Mapped(gOptions.aggregateProperties.v[k], c))

\* Three points with the values 1, 2 and 3 share a cell whose '+' aggregate is 6.
C2_Witness ==
    /\ gPc = "calculated"
    /\ gOptions.aggregateProperties = Folded("+")
    /\ \E c \in GridCells :
          /\ gGrid.cells[c].properties.point_count = 3
          /\ {Mapped(Folded("+").v.folded, c)[j] : j \in 1..3} = {N(1), N(2), N(3)}
          /\ gGrid.cells[c].properties.aggregateProperties.v.folded = N(6)

\* C3: for an aggregate ['+', i, mapExpression] with a scalar initial value i,
\* after calculateGrid the aggregate value of every cell is i plus the sum of
\* the mapped values of its points, i being counted once (1, 2, 3 from 10 is 16).
C3_InitialValueCountedOnce ==
    (gPc = "calculated" /\ gOptions.aggregateProperties = TotalsFrom10) =>
        \A c \in GridCells :
            gGrid.cells[c].properties.aggregateProperties.v.total
                = Num(RAdd(RInt(10), SumOf(Mapped(TotalsFrom10.v.total, c),
                                           Len(Assigned(c)))))

\* The smallest and the largest point_count over the cells of a non-empty grid.
PointCountRange ==
    [min |-> N(CHOOSE m \in {gGrid.cells[c].properties.point_count : c \in GridCells} :
                 \A c \in GridCells : m <= gGrid.cells[c].properties.point_count),
     max |-> N(CHOOSE m \in {gGrid.cells[c].properties.point_count : c \in GridCells} :
                 \A c \in GridCells : m >= gGrid.cells[c].properties.point_count)]

\* C7: with scaleProperty 'point_count' and no aggregateProperties, calculateGrid
\* on a non-empty list of points returns a grid, and its scale metrics are the
\* smallest and the largest point_count of its cells.
C7_PointCountScaleCompletes ==
    (/\ gPc = "calculated"
     /\ gOptions.scaleProperty = S("point_count")
     /\ ~HasAggregates(gOptions)
     /\ Len(gPoints) > 0)
        => ~IsThrow(gGrid) /\ gGrid.scaleMetrics = PointCountRange

\* C8: when the scale expression of the options does not parse, calculateGrid and
\* recalculateCoords use the default linear scale expression and return the grid
\* they return for options without a scale expression.
C8_ScaleExpressionFallsBack ==
    (gPc \in {"calculated", "recalculated"} /\ gOptions.scaleExpression = NotAnExpression)
        => /\ ~IsThrow(gGrid)
           /\ gPc = "calculated" =>
                 gGrid = CalculateGrid(gPoints, PixelsOf(gPoints),
                                       [gOptions EXCEPT !.scaleExpression = Undef]).value

\* Whether the map expression of some aggregate throws on some point of the list.
SomeMapExpressionThrows ==
    \E k \in WithoutInitialValue : \E i \in 1..Len(gPoints) :
        IsThrow(Eval(Parse(gOptions.aggregateProperties.v[k].v[2]), gPoints[i].properties))

\* C9: when the map expression of an aggregate throws on a point, calculateGrid
\* still returns a grid, every point of the list is assigned to a cell, and the
\* aggregate of a cell is the fold over the values of its other points.
C9_EvaluationErrorSkipsThePoint ==
    (gPc = "calculated" /\ SomeMapExpressionThrows)
        => /\ ~IsThrow(gGrid)
           /\ \A i \in 1..Len(gPoints) : \E c \in GridCells : \E j \in 1..Len(Assigned(c)) :
                 gGrid.pointLookupTable[gGrid.cells[c].properties.cell_id][j] = i - 1

(***************************************************************************)
(* Properties of the data source.                                          *)
(***************************************************************************)
\* The polygon of every cell of a grid, by cell id, and the scale range.
Output(grid) ==
    [polygons |-> [i \in 1..Len(grid.cells) |->
                     [cell_id |-> grid.cells[i].properties.cell_id,
                      coordinates |-> grid.cells[i].coordinates]],
     scaleMetrics |-> grid.scaleMetrics]

\* The step is a call of setOptions that answered with _recalculateCoords, which
\* returned, on a grid that was the full recompute of the points, and a full
\* recompute under the options as stored returns as well.
CoordinatesOnlyStep ==
    /\ calls' = calls + 1
    /\ last'.op = "setOptions"
    /\ gridInfo # Undef
    /\ gridInfo = CalculateGrid(points, pixels, opt).value
    /\ ~FullCalcNeeded(last'.arg)
    /\ CoordCalcNeeded(last'.arg)
    /\ thrown' = Undef
    /\ ~IsThrow(CalculateGrid(points', pixels', opt').value)

\* C1: when setOptions answers a change with a coordinates-only recompute, the
\* polygons of the cells and the scale range they are scaled with are those of
\* a full recompute of the same points under the options as stored.
C1_CoordinatesOnlyEqualsFull ==
    [][CoordinatesOnlyStep =>
          Output(gridInfo') = Output(CalculateGrid(points', pixels', opt').value)]_vars

\* C4: after any sequence of add, remove, removeById, setPoints and clear, the
\* cached pixels are as many as the points and pixel i is the projection of
\* point i.
C4_PixelsFollowPoints ==
    /\ Len(pixels) = Len(points)
    /\ \A i \in 1..Len(points) : pixels[i] = NormalizeGetPixel22(points[i].coordinates)

\* The step is a call of setOptions with an options object that names field.
SetOptionsNaming(field) ==
    /\ calls' = calls + 1
    /\ last'.op = "setOptions"
    /\ last'.arg[field] # Undef

\* Nothing was recomputed and no recompute was asked for.
NoRecompute == UNCHANGED <<gridInfo, shapes, requestId, pending>>

\* C10: setOptions rejects a cellWidth that is not positive and a gridType that is
\* not one of the grid types: the stored value stays, and on a data source that
\* holds a grid a call naming only that field recomputes nothing.
C10_InvalidOptionsAreRejected ==
    [][/\ (SetOptionsNaming("cellWidth") /\ ~RLt(RInt(0), ToNumber(last'.arg.cellWidth)))
            => /\ opt'.cellWidth = opt.cellWidth
               /\ (gridInfo # Undef /\ last'.arg = Partial([cellWidth |-> last'.arg.cellWidth]))
                     => NoRecompute
       /\ (SetOptionsNaming("gridType") /\ last'.arg.gridType \notin {S(g) : g \in GridTypes})
            => /\ opt'.gridType = opt.gridType
               /\ (gridInfo # Undef /\ last'.arg = Partial([gridType |-> last'.arg.gridType]))
                     => NoRecompute]_vars

(***************************************************************************)
(* Properties of GridMath.calculateGrid, continued.                        *)
(***************************************************************************)
\* The aggregates _parseMapExpressions dropped: it left undefined in their place.
Dropped ==
    IF gOptions = Undef \/ ~Truthy(gOptions.aggregateProperties) THEN {}
    ELSE {k \in DOMAIN gOptions.aggregateProperties.v :
            gOptions.aggregateProperties.v[k] = Undef}

\* The options without the aggregates in keys.
Without(options, keys) ==
    [options EXCEPT !.aggregateProperties =
        O([k \in DOMAIN options.aggregateProperties.v \ keys |->
             options.aggregateProperties.v[k]])]

\* The aggregate values a cell carries.
Carried(cell) ==
    IF Truthy(cell.properties.aggregateProperties)
    THEN [k \in {x \in DOMAIN cell.properties.aggregateProperties.v :
                   cell.properties.aggregateProperties.v[x] # Undef} |->
            cell.properties.aggregateProperties.v[k]]
    ELSE <<>>

\* What a grid tells: its cells in order with their counts, aggregate values and
\* polygons, its lookup tables and its scale range.
Told(grid) ==
    [cells |-> [i \in 1..Len(grid.cells) |->
                  [cell_id |-> grid.cells[i].properties.cell_id,
                   point_count |-> grid.cells[i].properties.point_count,
                   aggregateProperties |-> Carried(grid.cells[i]),
                   coordinates |-> grid.cells[i].coordinates]],
     cellLookupTable |-> grid.cellLookupTable,
     pointLookupTable |-> grid.pointLookupTable,
     scaleMetrics |-> grid.scaleMetrics]

\* Whether the map expression of an aggregate that parses throws on some point.
SomeParsedMapExpressionThrows ==
    /\ gOptions.aggregateProperties # Undef
    /\ \E k \in DOMAIN gOptions.aggregateProperties.v \ Dropped : \E i \in 1..Len(gPoints) :
          IsThrow(Eval(AggregateParse(gOptions.aggregateProperties.v[k]).e,
                       gPoints[i].properties))

\* C11: when an aggregate of the options does not parse it is dropped and
\* calculateGrid returns the grid it returns for the options without that
\* aggregate: every point is binned, the counts and the other aggregates are the
\* same, and no cell carries a value for the dropped aggregate.
C11_InvalidAggregateIsDropped ==
    (gPc = "calculated" /\ Dropped # {} /\ ~SomeParsedMapExpressionThrows)
        => /\ ~IsThrow(gGrid)
           /\ Told(gGrid) = Told(CalculateGrid(gPoints, PixelsOf(gPoints),
                                               Without(gOptions, Dropped)).value)
           /\ \A c \in GridCells : DOMAIN Carried(gGrid.cells[c]) \cap Dropped = {}
           /\ \A i \in 1..Len(gPoints) : \E c \in GridCells : \E j \in 1..Len(Assigned(c)) :
                 gGrid.pointLookupTable[gGrid.cells[c].properties.cell_id][j] = i - 1

\* A grid of two cells was returned for aggregates of which one was dropped.
C11_Witness ==
    /\ gPc = "calculated"
    /\ Dropped = {"bad"}
    /\ ~IsThrow(gGrid)
    /\ Len(gGrid.cells) = 2
    /\ \E c \in GridCells :
          /\ gGrid.cells[c].properties.point_count = 2
          /\ gGrid.cells[c].properties.aggregateProperties.v = [total |-> N(3)]

\* The options with no scale property and no aggregates: every cell is scaled by
\* the coverage alone.
Unscaled(options) == [options EXCEPT !.scaleProperty = Undef, !.aggregateProperties = Undef]

\* The grid of the points under the options scaled by the coverage alone.
UnscaledGrid == CalculateGrid(gPoints, PixelsOf(gPoints), Unscaled(gOptions)).value

\* What the scale expression of the options returns for cell c of the grid.
ScaleOf(c) ==
    Eval(ParseScaleExpression(WithDefaults(gOptions)),
         ScaleContext(gGrid.cells[c].properties, gGrid.scaleMetrics))

\* C12: for points that all fall in one cell, with a scale property and the
\* default scale expression, calculateGrid returns a grid, the scale expression
\* returns NaN for the cell, and the cell has the polygon the coverage alone
\* gives it.
C12_SingleCellScaleIsCoverage ==
    (/\ gPc = "calculated"
     /\ Truthy(gOptions.scaleProperty)
     /\ gOptions.scaleExpression = Undef
     /\ ~SomeParsedMapExpressionThrows
     /\ Len(UnscaledGrid.cells) = 1)
        => /\ ~IsThrow(gGrid)
           /\ ScaleOf(1).t = "number" /\ IsNaN(ScaleOf(1).v)
           /\ gGrid.cells[1].coordinates = UnscaledGrid.cells[1].coordinates

\* C13: calculateGrid run twice on the same points, pixels and options returns
\* the same grid (cell ids in order, counts, aggregate values, lookup tables,
\* scale range, polygons) or throws the same value, and the second run leaves
\* the options as the first left them.
C13_RecomputeIsIdempotent ==
    [][(gPc = "calculated" /\ gPc' = "calculated again")
          => gGrid' = gGrid /\ gOptions' = gOptions]_vars

\* A second run returned a grid of two cells for options of which the first run
\* had dropped an aggregate.
C13_Witness ==
    /\ gPc = "calculated again"
    /\ Dropped # {}
    /\ ~IsThrow(gGrid)
    /\ Len(gGrid.cells) = 2

(***************************************************************************)
(* Properties of GridMath._roundCubeCoord                                  *)
(***************************************************************************)

IsWhole(a) == a.d = 1

\* The rounding errors of the three components of coord.
ErrorOf(a) == RAbs(RSub(RRound(a), a))

\* coord with one component replaced by minus the sum of the two others rounded.
ColCorrected(coord) ==
    [col |-> RSub(RNeg(RRound(coord.row)), RRound(coord.z)),
     row |-> RRound(coord.row), z |-> RRound(coord.z)]

RowCorrected(coord) ==
    [col |-> RRound(coord.col),
     row |-> RSub(RNeg(RRound(coord.col)), RRound(coord.z)), z |-> RRound(coord.z)]

ZCorrected(coord) ==
    [col |-> RRound(coord.col), row |-> RRound(coord.row),
     z |-> RSub(RNeg(RRound(coord.col)), RRound(coord.row))]

\* C14: the rounding of a fractional cube coordinate whose components sum to
\* zero is three integers that sum to zero.
C14_CubeRoundingSumsToZero ==
    mPc = "rounded" =>
        /\ IsWhole(mOut.col) /\ IsWhole(mOut.row) /\ IsWhole(mOut.z)
        /\ RAdd(RAdd(mOut.col, mOut.row), mOut.z) = RInt(0)

\* A coordinate whose three roundings do not sum to zero was rounded, and the
\* row was the component corrected.
C14_Witness ==
    /\ mPc = "rounded"
    /\ RAdd(RAdd(RRound(mIn.col), RRound(mIn.row)), RRound(mIn.z)) # RInt(0)
    /\ mOut.row # RRound(mIn.row)

\* C20 as stated: the col is corrected when its error is largest or ties for
\* largest; else the row when its error is at least that of z; else z.
C20_ColOverRowOverZ ==
    mPc = "rounded" =>
        mOut = IF RLe(ErrorOf(mIn.row), ErrorOf(mIn.col)) /\ RLe(ErrorOf(mIn.z), ErrorOf(mIn.col))
               THEN ColCorrected(mIn)
               ELSE IF RLe(ErrorOf(mIn.z), ErrorOf(mIn.row))
               THEN RowCorrected(mIn)
               ELSE ZCorrected(mIn)

\* C20 amended: z is corrected when its error is largest or ties for largest;
\* else the row when its error is at least that of col; the col only when its
\* error is greater than both others.
C20_ZOverRowOverCol ==
    mPc = "rounded" =>
        mOut = IF RLe(ErrorOf(mIn.col), ErrorOf(mIn.z)) /\ RLe(ErrorOf(mIn.row), ErrorOf(mIn.z))
               THEN ZCorrected(mIn)
               ELSE IF RLe(ErrorOf(mIn.col), ErrorOf(mIn.row))
               THEN RowCorrected(mIn)
               ELSE ColCorrected(mIn)

\* The errors of col and row tie for largest, and correcting the row gives
\* another cell than correcting the col would.
C20_Witness ==
    /\ mPc = "rounded"
    /\ ErrorOf(mIn.col) = ErrorOf(mIn.row)
    /\ RLt(ErrorOf(mIn.z), ErrorOf(mIn.col))
    /\ mOut = RowCorrected(mIn)
    /\ mOut # ColCorrected(mIn)

(***************************************************************************)
(* Properties of GridMath._finalizeCellInfo                                *)
(***************************************************************************)

\* n is count / unit rounded to the nearest integer, a half rounded up.
RoundedTo(n, count, unit) == 2 * (count - n * unit) < unit /\ 2 * (n * unit - count) <= unit

\* The abbreviated point count of the finalized cell: the number and the suffix
\* of the text.
Abbreviated == mOut.cellInfo.point_count_abbreviated

HoldsGrid == gPc \in {"calculated", "recalculated", "calculated again"} /\ ~IsThrow(gGrid)

\* One ring that ends at the position it starts from.
OneClosedRing(coordinates) ==
    /\ Len(coordinates) = 1
    /\ Len(coordinates[1]) >= 2
    /\ coordinates[1][Len(coordinates[1])] = coordinates[1][1]

\* C15: after a full or a coordinates-only recompute of any of the six grid
\* types, the geometry of every cell is one ring that starts and ends at the
\* same coordinate.
C15_EveryCellIsOneClosedRing ==
    (HoldsGrid /\ gOptions.gridType.v \in GridTypes)
        => \A i \in 1..Len(gGrid.cells) : OneClosedRing(gGrid.cells[i].coordinates)

\* A coordinates-only recompute left two circles of 36 nodes each.
C15_Witness ==
    /\ gPc = "recalculated"
    /\ ~IsThrow(gGrid)
    /\ gOptions.gridType = S("circle")
    /\ Len(gGrid.cells) = 2
    /\ \A i \in 1..2 : OneClosedRing(gGrid.cells[i].coordinates)
                          /\ Len(gGrid.cells[i].coordinates[1]) = 37

\* The pixel x coordinate that _toPosition22 projected to the longitude lon.
PixelXOf(lon) == RMul(RAdd(RDiv(lon, RInt(360)), Half), RInt(MapSize22))

OnTheMap(x) == RLe(RInt(0), x) /\ RLe(x, RInt(MapSize22))

\* C18: every vertex of every cell polygon has a pixel x coordinate from 0 to
\* the map size, so that no cell reaches over the antimeridian.
C18_VerticesStayOnTheMap ==
    (HoldsGrid /\ gOptions.gridType.v \in GridTypes)
        => \A i \in 1..Len(gGrid.cells) :
             \A r \in 1..Len(gGrid.cells[i].coordinates) :
               \A k \in 1..Len(gGrid.cells[i].coordinates[r]) :
                  OnTheMap(PixelXOf(gGrid.cells[i].coordinates[r][k][1]))

(***************************************************************************)
(* Properties of GriddedDataSource.setOptions, continued                   *)
(***************************************************************************)

\* A call of setOptions was made in this step.
SetOptionsStep == calls' = calls + 1 /\ last'.op = "setOptions"

\* The values of an option that setOptions refuses whatever is stored.
Refused(field, value) ==
    CASE field = "maxZoom" ->
           value.t # "number" \/ RLt(value.v, RInt(0)) \/ ~RLt(value.v, RInt(25))
      [] field = "cellWidth" -> value.t # "number" \/ ~RLt(RInt(0), value.v)
      [] field = "minCellWidth" -> value.t # "number" \/ RLt(value.v, RInt(0))
      [] field \in {"distanceUnits", "gridType"} -> ~Truthy(value)
      [] OTHER -> value = Undef

\* C16: setOptions leaves an option that its argument does not name, or names
\* with a value it refuses, as it is stored, and an option it changes has the
\* value supplied for it.
C16_SetOptionsKeepsTheRest ==
    [][SetOptionsStep =>
          \A field \in DOMAIN opt :
             /\ opt'[field] # opt[field] => opt'[field] = last'.arg[field]
             /\ Refused(field, last'.arg[field]) => opt'[field] = opt[field]]_vars

\* setOptions was given a refused cell width and a coverage: the coverage is
\* stored and the cell width is kept.
C16_Witness ==
    /\ last.op = "setOptions"
    /\ last.arg.cellWidth = N(-5)
    /\ last.arg.coverage = Num(Half)
    /\ opt.cellWidth = N(25000)
    /\ opt.coverage = Num(Half)
    /\ opt.gridType = S("hexagon")

(***************************************************************************)
(* Properties of the step expression                                       *)
(***************************************************************************)

StepExample == A(<<S("step"), Get1("n"), S("low"), N(10), S("mid"), N(20), S("high")>>)

\* The expression of the harness is a step expression over numeric stops:
\* ['step', input, output0, stop1, output1, ...].
IsStep ==
    /\ IsArray(xExp)
    /\ Len(xExp.v) >= 5 /\ Len(xExp.v) % 2 = 1
    /\ xExp.v[1] = S("step")
    /\ \A k \in 1..((Len(xExp.v) - 3) \div 2) : xExp.v[2 * k + 2].t = "number"

\* The stops of the step expression that are at least n, by their number.
StopsFrom(n) == {k \in 1..((Len(xExp.v) - 3) \div 2) : RLe(n, xExp.v[2 * k + 2].v)}

\* C17: a step expression whose input is a number returns the output listed
\* just before the first stop that the input is less than or equal to, and the
\* last output when the input is over every stop; the documented example
\* returns 'mid' for n = 15.
C17_StepReturnsOutputBeforeFirstStop ==
    /\ (xPc = "evaluated" /\ IsStep /\ xExp.v[2] = Get1("n")
          /\ xCtx # EmptyObj /\ xCtx.v.n.t = "number")
          => xVal = IF StopsFrom(xCtx.v.n.v) = {} THEN xExp.v[Len(xExp.v)]
                    ELSE xExp.v[2 * (CHOOSE k \in StopsFrom(xCtx.v.n.v) :
                                       \A j \in StopsFrom(xCtx.v.n.v) : k <= j) + 1]
    /\ (xPc = "evaluated" /\ xExp = StepExample /\ xCtx = Bag(15)) => xVal = S("mid")

\* The example was evaluated for an input equal to its first stop, and returned
\* the output before that stop.
C17_Witness ==
    /\ xPc = "evaluated"
    /\ xExp = StepExample
    /\ xCtx = Bag(10)
    /\ xVal = S("low")

(***************************************************************************)
(* Properties of the math expressions                                      *)
(***************************************************************************)

\* The expression of the harness is [o, ['get', 'n'], 2] and the bag has n.
IsMathOfN(o) == xExp = A(<<S(o), Get1("n"), N(2)>>) /\ xCtx # EmptyObj

\* C21: an evaluated '+', '*', 'min' or 'max' expression returns the fold of
\* its operands: their sum, their product, their minimum, their maximum.
C21_FoldOfOperands ==
    xPc = "evaluated" =>
        /\ IsMathOfN("+") => xVal = Num(RAdd(xCtx.v.n.v, RInt(2)))
        /\ IsMathOfN("*") => xVal = Num(RMul(xCtx.v.n.v, RInt(2)))
        /\ IsMathOfN("min") => xVal = Num(RMin(xCtx.v.n.v, RInt(2)))
        /\ IsMathOfN("max") => xVal = Num(RMax(xCtx.v.n.v, RInt(2)))

\* C22: '-', '/', '%' and '^' take their operands in the order written, for
\* operands that are number literals and operands that are expressions.
C22_BinaryOperandOrder ==
    xPc = "evaluated" =>
        /\ IsMathOfN("-") => xVal = Num(RSub(xCtx.v.n.v, RInt(2)))
        /\ IsMathOfN("/") => xVal = Num(RDiv(xCtx.v.n.v, RInt(2)))
        /\ IsMathOfN("%") => xVal = Num(RMod(xCtx.v.n.v, RInt(2)))
        /\ IsMathOfN("^") => xVal = Num(RPow(xCtx.v.n.v, RInt(2)))
        /\ xExp = A(<<S("/"), N(10), N(4)>>) => xVal = Num(Rat(5, 2))
        /\ (xExp = A(<<S("-"), N(7), Get1("n")>>) /\ xCtx # EmptyObj)
              => xVal = Num(RSub(RInt(7), xCtx.v.n.v))

(***************************************************************************)
(* Properties of the match expression                                      *)
(***************************************************************************)

MatchOfNumbers == A(<<S("match"), Get1("n"), N(5), S("five"), N(15), S("fifteen"), S("other")>>)

MatchOfLists ==
    A(<<S("match"), Get1("n"), A(<<N(5), N(15)>>), S("small"), N(25), S("big"), S("other")>>)

\* C23: a match expression returns the output of the first label that its
\* input matches, a label being a number or string that equals the input or an
\* array that holds it, and the fallback when no label matches.
C23_MatchReturnsFirstMatchingLabel ==
    (xPc = "evaluated" /\ xCtx # EmptyObj) =>
        /\ xExp = MatchOfNumbers =>
              xVal = CASE xCtx.v.n = N(5) -> S("five")
                       [] xCtx.v.n = N(15) -> S("fifteen")
                       [] OTHER -> S("other")
        /\ xExp = MatchOfLists =>
              xVal = CASE xCtx.v.n \in {N(5), N(15)} -> S("small")
                       [] xCtx.v.n = N(25) -> S("big")
                       [] OTHER -> S("other")

(***************************************************************************)
(* Properties of the grid index                                            *)
(***************************************************************************)

\* The harness holds a grid that calculateGrid returned.
HoldsFullGrid == gPc \in {"calculated", "calculated again"} /\ ~IsThrow(gGrid)

\* The id of the cell at a cell coordinate.
IdOfCoord(coord) == <<coord.col, coord.row, coord.z>>

IdOf(c) == gGrid.cells[c].properties.cell_id

\* The point indices listed for the cell at position c.
Listed(c) == gGrid.pointLookupTable[IdOf(c)]

RECURSIVE CountSum(_)
\* The point counts of the first c cells added up.
CountSum(c) == IF c = 0 THEN 0 ELSE CountSum(c - 1) + gGrid.cells[c].properties.point_count

\* C24: after a full recompute the cell ids are pairwise distinct, the cell
\* lookup table maps every cell id to the position of its cell, every cell
\* counts at least one point and as many as its point lookup entry lists, the
\* entries are ascending and partition the point indices 0..n-1, and the
\* counts add up to the number of points.
C24_GridIndexIsConsistent ==
    HoldsFullGrid =>
        /\ \A c, d \in 1..Len(gGrid.cells) : IdOf(c) = IdOf(d) => c = d
        /\ DOMAIN gGrid.cellLookupTable = {IdOf(c) : c \in 1..Len(gGrid.cells)}
        /\ DOMAIN gGrid.pointLookupTable = {IdOf(c) : c \in 1..Len(gGrid.cells)}
        /\ \A c \in 1..Len(gGrid.cells) :
              /\ gGrid.cellLookupTable[IdOf(c)] = c - 1
              /\ gGrid.cells[c].properties.point_count >= 1
              /\ gGrid.cells[c].properties.point_count = Len(Listed(c))
              /\ \A j, k \in 1..Len(Listed(c)) : j < k => Listed(c)[j] < Listed(c)[k]
        /\ \A i \in 0..(Len(gPoints) - 1) :
              \E c \in 1..Len(gGrid.cells) :
                 /\ \E j \in 1..Len(Listed(c)) : Listed(c)[j] = i
                 /\ \A d \in 1..Len(gGrid.cells) :
                       (\E j \in 1..Len(Listed(d)) : Listed(d)[j] = i) => d = c
        /\ \A c \in 1..Len(gGrid.cells) : \A j \in 1..Len(Listed(c)) :
              Listed(c)[j] \in 0..(Len(gPoints) - 1)
        /\ CountSum(Len(gGrid.cells)) = Len(gPoints)

\* A grid of two cells was computed for three points, the first and the last
\* of them in one cell.
C24_Witness ==
    /\ gPc = "calculated"
    /\ ~IsThrow(gGrid)
    /\ Len(gPoints) = 3
    /\ Len(gGrid.cells) = 2
    /\ Listed(1) = <<0, 2>>
    /\ Listed(2) = <<1>>

(***************************************************************************)
(* Properties of GridMath.recalculateCoords                                *)
(***************************************************************************)

\* The grid without the polygon rings of its cells.
WithoutRings(grid) ==
    [grid EXCEPT !.cells = [i \in 1..Len(grid.cells) |-> [grid.cells[i] EXCEPT !.coordinates = <<>>]]]

\* C25: recalculateCoords leaves the cells in their order, their ids, counts,
\* abbreviated counts and aggregate values, both lookup tables, the cell width
\* and height and the scale metrics as they are, whether it returns or throws
\* on the way: only polygon rings change.
C25_CoordinatesOnlyKeepsTheIndex ==
    [][(gPc = "calculated" /\ gPc' = "recalculated")
          => WithoutRings(IF IsThrow(gGrid') THEN RecalculateCoords(gGrid, gOptions').grid
                          ELSE gGrid')
                = WithoutRings(gGrid)]_vars

\* A coordinates-only recompute gave the two cells of a grid with an aggregate
\* other polygons.
C25_Witness ==
    /\ gPc = "recalculated"
    /\ ~IsThrow(gGrid)
    /\ Len(gGrid.cells) = 2
    /\ gOptions.coverage = Num(Half)
    /\ Truthy(gOptions.aggregateProperties)
    /\ \A c \in 1..2 :
          gGrid.cells[c].coordinates
             # CalculateGrid(gPoints, PixelsOf(gPoints),
                             [gOptions EXCEPT !.coverage = N(1)]).value.cells[c].coordinates

(***************************************************************************)
(* Properties of the minimum cell width                                    *)
(***************************************************************************)

\* The pixel x coordinates of the vertices of the cell at position c.
PixelXs(c) ==
    {PixelXOf(gGrid.cells[c].coordinates[1][k][1]) : k \in 1..Len(gGrid.cells[c].coordinates[1])}

\* No vertex of the cell was moved by the clamp to the map: all lie inside it.
Unclamped(c) == \A x \in PixelXs(c) : RLt(RInt(0), x) /\ RLt(x, RInt(MapSize22))

\* Some two vertices of the cell are at least width pixels apart in x.
SpansAtLeast(c, width) == \E x, y \in PixelXs(c) : RLe(width, RSub(y, x))

\* The part of its diameter that a regular polygon spans in x: a pointy
\* hexagon has no vertex on its horizontal axis.
SpanOfDiameter == IF gOptions.gridType = S("pointyHexagon") THEN InnerRadiusScale ELSE RInt(1)

\* C26: for every grid type and scale the polygon of a cell has finite pixel x
\* coordinates and, where the map edge does not clamp it, a width of at least
\* min(minCellWidth, cellWidth) in pixels.
C26_MinimumCellWidthIsAFloor ==
    (HoldsGrid /\ gOptions.gridType.v \in GridTypes)
        => \A c \in 1..Len(gGrid.cells) :
              /\ \A x \in PixelXs(c) : IsFinite(x)
              /\ Unclamped(c) => SpansAtLeast(c, RMul(MinCellWidth(gOptions), SpanOfDiameter))

(***************************************************************************)
(* Properties of the recompute throttle                                    *)
(***************************************************************************)

\* The number of points binned into a list of cells.
RECURSIVE PointsIn(_)
PointsIn(cells) ==
    IF cells = <<>> THEN 0 ELSE Head(cells).properties.point_count + PointsIn(Tail(cells))

\* A call of the data source while an animation frame is awaited.
CallBeforeTheFrame == pending /\ calls' = calls + 1

\* The awaited animation frame runs and publishes a grid.
FramePublishes == pending /\ ~pending' /\ ~IsThrow(thrown')

\* C27: a call made while an animation frame is awaited asks for no further
\* frame (the request and its handle stay as they are), and the frame, when it
\* runs, computes the grid from the points and options of that moment: the
\* published grid bins every point stored then and no other.
C27_ThrottleCoalesces ==
    [][/\ CallBeforeTheFrame => (pending' /\ requestId' = requestId)
       /\ FramePublishes =>
             /\ gridInfo' = CalculateGrid(points, pixels, opt).value
             /\ shapes' = gridInfo'.cells
             /\ PointsIn(shapes') = Len(points)
             /\ requestId' = Undef]_vars

\* Two calls were made and both await the one frame asked for by the first.
C27_Witness ==
    /\ pending /\ requestId = N(1)
    /\ calls = 2 /\ last.op \in {"add", "remove", "removeById", "setOptions"}
    /\ gridInfo = Undef
    /\ Len(points) > 0

\* The awaited animation frame runs, whether the recompute throws or not.
FrameRuns == pending /\ ~pending'

\* add or setPoints is called while no animation frame is awaited.
CallAfterTheFrame == ~pending /\ calls' = calls + 1 /\ last'.op \in {"add", "setPoints"}

\* C28: the frame clears the throttle's request marker even if the recompute
\* throws, so an add or setPoints call made when no frame is awaited asks for
\* a new one.
C28_FailedFrameClearsTheMarker ==
    [][/\ FrameRuns => requestId' = Undef
       /\ CallAfterTheFrame => pending']_vars

(***************************************************************************)
(* Properties of remove                                                    *)
(***************************************************************************)

\* The positions of the stored points that the argument of remove names: the
\* point at an index, the points with an id, the stored feature itself.
Named(point) ==
    CASE point.t = "number" -> {i \in 1..Len(points) : point.v = RInt(i - 1)}
      [] point.t = "string" -> {i \in 1..Len(points) : points[i].id = point}
      [] point.t = "feature" -> {i \in 1..Len(points) : points[i].ref = point.v.ref}

\* The stored points without the one at position i.
PointsWithout(i) == SubSeq(points, 1, i - 1) \o SubSeq(points, i + 1, Len(points))

\* remove(point) is called.
RemoveStep == calls' = calls + 1 /\ last'.op = "remove"

\* C29: remove() with a feature that is not stored, an id that no point has or
\* an index outside 0..length-1 leaves the stored points unchanged, and
\* remove() with a stored feature removes that feature and no other.
C29_RemoveTouchesOnlyTheNamedPoint ==
    [][RemoveStep =>
          /\ Named(last'.arg) = {} => points' = points
          /\ (last'.arg.t = "feature" /\ Named(last'.arg) # {})
                => \E i \in Named(last'.arg) : points' = PointsWithout(i)]_vars

(***************************************************************************)
(* Properties of getCellChildren                                           *)
(***************************************************************************)

\* The point lies in the cell with that id on a grid of the published width
\* and height, for a grid type that has this height at this width.
BelongsTo(point, cell_id) ==
    \E g \in GridTypes :
       /\ CellHeight(gridInfo.width, S(g)) = gridInfo.height
       /\ cell_id = IdOfCoord(GetCellCoord(NormalizeGetPixel22(point.coordinates),
                                           gridInfo.width, gridInfo.height, S(g)))

\* The value is the copy of a stored point that lies in the cell.
StoredPointOf(child, cell_id) ==
    \E i \in 1..Len(points) : child = JsonCopy(points[i]) /\ BelongsTo(points[i], cell_id)

\* C30: at every moment every element that getCellChildren returns for a cell
\* is a stored point of that cell, never a missing entry or a point of another
\* cell, and after clear() the list is empty for every cell.
C30_CellChildrenAreStoredPointsOfTheCell ==
    gridInfo # Undef =>
        \A cell_id \in DOMAIN gridInfo.pointLookupTable :
           /\ \A k \in 1..Len(GetCellChildren(gridInfo, points, cell_id)) :
                 StoredPointOf(GetCellChildren(gridInfo, points, cell_id)[k], cell_id)
           /\ last.op = "clear" => GetCellChildren(gridInfo, points, cell_id) = <<>>

=============================================================================
